---- MODULE Spec2Model ----
(***************************************************************************)
(* Session persistence manager (src/session/manager.ts): the DynamoDB      *)
(* table of session checkpoints, the handlers saveState, restoreState,     *)
(* deleteSession, updateStatus and updateStatusIf, and the process         *)
(* instances that call them.                                               *)
(*                                                                         *)
(* An item of the table and every JavaScript object is a function from     *)
(* attribute names to values; an attribute that is undefined is absent     *)
(* from the domain.                                                        *)
(***************************************************************************)
EXTENDS Integers, Sequences, FiniteSets, TLC

\* ---------------------------------------------------------------- bounds
\* number of clock advances in a behaviour
MaxTicks == 2
\* milliseconds the clock advances by in one step
TickMs == 500
\* checkpoints a process instance writes before it finalizes
MaxCheckpoints == 1
\* updateStatusIf calls a process instance repeats after its finalization
MaxLater == 1

\* ------------------------------------------------------- program constants
DEFAULT_TTL_SECONDS == 60 * 60

PENDING == "PENDING"
RUNNING == "RUNNING"
COMPLETED == "COMPLETED"
FAILED == "FAILED"
CANCELLED == "CANCELLED"

SessionStatus == {PENDING, RUNNING, COMPLETED, FAILED, CANCELLED}

TerminalStatus == {COMPLETED, FAILED, CANCELLED}

\* ------------------------------------------------------------ JS objects
Has(obj, key) == key \in DOMAIN obj

\* object spread {...a, ...b}
Spread(a, b) ==
  [k \in (DOMAIN a) \cup (DOMAIN b) |-> IF k \in DOMAIN b THEN b[k] ELSE a[k]]

EmptyObject == [k \in {} |-> 0]

\* the object without the attributes whose name is in keys
Omit(obj, keys) == [k \in (DOMAIN obj) \ keys |-> obj[k]]

\* ------------------------------------------------------- return values
Void == [kind |-> "void"]

Null == [kind |-> "null"]

Value(v) == [kind |-> "value", value |-> v]

Throw(err) == [kind |-> "throw", error |-> err]

\* reading a property of undefined
TypeError == [name |-> "TypeError"]

\* the error the backend raises when a ConditionExpression does not hold
ConditionalCheckFailedException ==
  [name |-> "ConditionalCheckFailedException",
   code |-> "ConditionalCheckFailedException"]

\* --------------------------------------------------------------- backend
EmptyTable == [k \in {} |-> EmptyObject]

\* PutCommand that merges the item into the one stored under its key
PutCommand_merge(tbl, item) ==
  [k \in (DOMAIN tbl) \cup {item.sessionId} |->
     IF k # item.sessionId THEN tbl[k]
     ELSE IF k \in DOMAIN tbl THEN Spread(tbl[k], item) ELSE item]

\* PutCommand: the item replaces whatever is stored under its key
PutCommand(tbl, item) ==
  [k \in (DOMAIN tbl) \cup {item.sessionId} |->
     IF k = item.sessionId THEN item ELSE tbl[k]]

\* GetCommand: the response carries Item only when the key is present
GetCommand(tbl, sessionId) ==
  IF sessionId \in DOMAIN tbl THEN [Item |-> tbl[sessionId]] ELSE EmptyObject

\* DeleteCommand: removing an absent key is not an error
DeleteCommand(tbl, sessionId) ==
  [k \in (DOMAIN tbl) \ {sessionId} |-> tbl[k]]

\* UpdateCommand whose ConditionExpression is evaluated against the new value
UpdateCommand_conditionOnNew(tbl, sessionId, sets, conditional, expectedStatus) ==
  LET old == IF sessionId \in DOMAIN tbl THEN tbl[sessionId]
             ELSE [sessionId |-> sessionId]
      holds == Has(old, "status") /\ sets.status # expectedStatus
  IN IF conditional /\ ~holds
     THEN [table |-> tbl, failed |-> TRUE]
     ELSE [table |-> PutCommand(tbl, Spread(old, sets)), failed |-> FALSE]

\* UpdateCommand with "SET ..." : an absent key is created (upsert); with a
\* ConditionExpression "#status = :expectedStatus" the update is applied only
\* if the stored item has that status, evaluated and applied in one step
UpdateCommand(tbl, sessionId, sets, conditional, expectedStatus) ==
  LET old == IF sessionId \in DOMAIN tbl THEN tbl[sessionId]
             ELSE [sessionId |-> sessionId]
      holds == Has(old, "status") /\ old.status = expectedStatus
  IN IF conditional /\ ~holds
     THEN [table |-> tbl, failed |-> TRUE]
     ELSE [table |-> PutCommand(tbl, Spread(old, sets)), failed |-> FALSE]

\* -------------------------------------------------------------- handlers
\* each handler is the function (table, arguments, Date.now()) ->
\* [table |-> the table after the call, ret |-> what the call returns]

\* deleteSession with a ConditionExpression attribute_exists(sessionId)
deleteSession_mustExist(tbl, sessionId) ==
  IF sessionId \in DOMAIN tbl
  THEN [table |-> DeleteCommand(tbl, sessionId), ret |-> Void]
  ELSE [table |-> tbl, ret |-> Throw(ConditionalCheckFailedException)]

deleteSession(tbl, sessionId) ==
  [table |-> DeleteCommand(tbl, sessionId), ret |-> Void]

\* saveState storing state.error whatever options.includeError is
saveState_alwaysError(tbl, sessionId, state, options, clk) ==
  LET ttl == IF Has(options, "ttl") THEN options.ttl ELSE DEFAULT_TTL_SECONDS
      metadata == Spread(IF Has(state, "metadata") THEN state.metadata
                         ELSE EmptyObject,
                         [sessionId |-> sessionId,
                          lastUpdateTime |-> clk,
                          expiresAt |-> (clk \div 1000) + ttl])
  IN [table |-> PutCommand(tbl, Spread(metadata, Omit(state, {"metadata"}))),
      ret |-> Void]

\* saveState with "options.ttl || DEFAULT_TTL_SECONDS"
saveState_ttlOr(tbl, sessionId, state, options, clk) ==
  LET ttl == IF Has(options, "ttl") /\ options.ttl # 0 THEN options.ttl
             ELSE DEFAULT_TTL_SECONDS
      metadata == Spread(IF Has(state, "metadata") THEN state.metadata
                         ELSE EmptyObject,
                         [sessionId |-> sessionId,
                          lastUpdateTime |-> clk,
                          expiresAt |-> (clk \div 1000) + ttl])
      payload == Omit(state, {"metadata"} \cup
                      (IF Has(options, "includeError") /\ options.includeError
                       THEN {} ELSE {"error"}))
  IN [table |-> PutCommand(tbl, Spread(metadata, payload)), ret |-> Void]

\* saveState spreading state.metadata after its own sessionId
saveState_metadataLast(tbl, sessionId, state, options, clk) ==
  LET ttl == IF Has(options, "ttl") THEN options.ttl ELSE DEFAULT_TTL_SECONDS
      expiresAt == (clk \div 1000) + ttl
      metadata == Spread(Spread([sessionId |-> sessionId],
                                IF Has(state, "metadata") THEN state.metadata
                                ELSE EmptyObject),
                         [lastUpdateTime |-> clk,
                          expiresAt |-> expiresAt])
      payload == Omit(state, {"metadata"} \cup
                      (IF Has(options, "includeError") /\ options.includeError
                       THEN {} ELSE {"error"}))
  IN [table |-> PutCommand(tbl, Spread(metadata, payload)), ret |-> Void]

saveState(tbl, sessionId, state, options, clk) ==
  LET ttl == IF Has(options, "ttl") THEN options.ttl ELSE DEFAULT_TTL_SECONDS
      expiresAt == (clk \div 1000) + ttl
      metadata == Spread(IF Has(state, "metadata") THEN state.metadata
                         ELSE EmptyObject,
                         [sessionId |-> sessionId,
                          lastUpdateTime |-> clk,
                          expiresAt |-> expiresAt])
      payload == Omit(state, {"metadata"} \cup
                      (IF Has(options, "includeError") /\ options.includeError
                       THEN {} ELSE {"error"}))
  IN [table |-> PutCommand(tbl, Spread(metadata, payload)), ret |-> Void]

\* restoreState without the test of response.Item
restoreState_noItemTest(tbl, sessionId, clk) ==
  LET response == GetCommand(tbl, sessionId) IN
  IF ~Has(response, "Item") \/ ~Has(response.Item, "metadata")
  THEN [table |-> tbl, ret |-> Throw(TypeError)]
  ELSE [table |-> tbl,
        ret |-> Value([state |-> response.Item,
                       resumable |-> response.Item.metadata.status = RUNNING,
                       elapsed |-> clk - response.Item.metadata.startTime])]

restoreState(tbl, sessionId, clk) ==
  LET response == GetCommand(tbl, sessionId) IN
  IF ~Has(response, "Item") THEN [table |-> tbl, ret |-> Null]
  ELSE
    LET state == response.Item IN
    IF ~Has(state, "metadata") THEN [table |-> tbl, ret |-> Throw(TypeError)]
    ELSE
      LET elapsed == clk - state.metadata.startTime IN
      IF clk > state.metadata.expiresAt * 1000
      THEN [table |-> deleteSession(tbl, sessionId).table, ret |-> Null]
      ELSE [table |-> tbl,
            ret |-> Value([state |-> state,
                           resumable |-> state.metadata.status = RUNNING,
                           elapsed |-> elapsed])]

\* updateStatus that refuses to leave a terminal status
updateStatus_guarded(tbl, sessionId, status, clk) ==
  IF sessionId \in DOMAIN tbl /\ Has(tbl[sessionId], "status")
     /\ tbl[sessionId].status \in TerminalStatus
  THEN [table |-> tbl, ret |-> Throw(ConditionalCheckFailedException)]
  ELSE [table |-> UpdateCommand(tbl, sessionId,
                                [status |-> status, lastUpdateTime |-> clk],
                                FALSE, status).table,
        ret |-> Void]

\* updateStatus whose SET also rewrites startTime
updateStatus_touchStart(tbl, sessionId, status, clk) ==
  LET r == UpdateCommand(tbl, sessionId,
                         [status |-> status, lastUpdateTime |-> clk,
                          startTime |-> clk],
                         FALSE, status)
  IN [table |-> r.table, ret |-> Void]

updateStatus(tbl, sessionId, status, clk) ==
  LET r == UpdateCommand(tbl, sessionId,
                         [status |-> status, lastUpdateTime |-> clk],
                         FALSE, status)
  IN [table |-> r.table, ret |-> Void]

\* updateStatusIf whose SET leaves lastUpdateTime out
updateStatusIf_noTouch(tbl, sessionId, newStatus, expectedCurrentStatus, clk) ==
  LET r == UpdateCommand(tbl, sessionId, [status |-> newStatus],
                         TRUE, expectedCurrentStatus)
  IN [table |-> r.table, ret |-> Value(~r.failed)]

\* updateStatusIf without its ConditionExpression
updateStatusIf_unconditional(tbl, sessionId, newStatus, expectedCurrentStatus, clk) ==
  [table |-> updateStatus(tbl, sessionId, newStatus, clk).table,
   ret |-> Value(TRUE)]

\* updateStatusIf rethrowing the failed condition like any other error
updateStatusIf_rethrow(tbl, sessionId, newStatus, expectedCurrentStatus, clk) ==
  LET r == UpdateCommand(tbl, sessionId,
                         [status |-> newStatus, lastUpdateTime |-> clk],
                         TRUE, expectedCurrentStatus)
  IN IF ~r.failed THEN [table |-> r.table, ret |-> Value(TRUE)]
     ELSE [table |-> r.table, ret |-> Throw(ConditionalCheckFailedException)]

updateStatusIf(tbl, sessionId, newStatus, expectedCurrentStatus, clk) ==
  LET r == UpdateCommand(tbl, sessionId,
                         [status |-> newStatus, lastUpdateTime |-> clk],
                         TRUE, expectedCurrentStatus)
  IN IF ~r.failed THEN [table |-> r.table, ret |-> Value(TRUE)]
     ELSE IF ConditionalCheckFailedException.code = "ConditionalCheckFailedException"
          THEN [table |-> r.table, ret |-> Value(FALSE)]
          ELSE [table |-> r.table, ret |-> Throw(ConditionalCheckFailedException)]

\* the ids of a set, in the order the backend returns their items
RECURSIVE IdSeq(_)
IdSeq(ids) ==
  IF ids = {} THEN <<>>
  ELSE LET id == CHOOSE i \in ids : TRUE IN <<id>> \o IdSeq(ids \ {id})

\* the stored items of the given ids, as the Items of a response
ItemsOf(tbl, ids) ==
  LET order == IdSeq(ids) IN [i \in 1..Len(order) |-> tbl[order[i]]]

\* ScanCommand with FilterExpression "#status = :status AND expiresAt < :now":
\* an item without one of the two attributes does not match
ScanCommand(tbl, status, nowSec) ==
  [Items |-> ItemsOf(tbl, {id \in DOMAIN tbl :
                             /\ Has(tbl[id], "status")
                             /\ tbl[id].status = status
                             /\ Has(tbl[id], "expiresAt")
                             /\ tbl[id].expiresAt < nowSec})]

\* the loop of cleanupExpiredSessions over the scanned items
RECURSIVE DeleteEach(_, _)
DeleteEach(tbl, items) ==
  IF items = <<>> THEN tbl
  ELSE DeleteEach(IF Has(Head(items), "sessionId")
                  THEN deleteSession(tbl, Head(items).sessionId).table
                  ELSE tbl,
                  Tail(items))

\* cleanupExpiredSessions scanning for COMPLETED instead of RUNNING records
cleanupExpiredSessions_wrongStatus(tbl, clk) ==
  LET expired == ScanCommand(tbl, COMPLETED, clk \div 1000).Items
  IN [table |-> DeleteEach(tbl, expired), ret |-> Value(Len(expired))]

cleanupExpiredSessions(tbl, clk) ==
  LET nowSec == clk \div 1000
      expired == ScanCommand(tbl, RUNNING, nowSec).Items
  IN [table |-> DeleteEach(tbl, expired), ret |-> Value(Len(expired))]

\* QueryCommand that leaves the range key out of the KeyConditionExpression
QueryCommand_hashOnly(tbl, indexName, hashValue, status) ==
  LET hashKey == IF indexName = "UserIndex" THEN "userId" ELSE "guildId"
  IN [Items |-> ItemsOf(tbl, {id \in DOMAIN tbl :
                                /\ Has(tbl[id], hashKey)
                                /\ tbl[id][hashKey] = hashValue})]

\* QueryCommand on UserIndex (userId, status) or GuildIndex (guildId, status)
\* with KeyConditionExpression "<hash key> = :value AND #status = :status";
\* an item is in an index only if it has both key attributes
QueryCommand(tbl, indexName, hashValue, status) ==
  LET hashKey == IF indexName = "UserIndex" THEN "userId" ELSE "guildId"
  IN [Items |-> ItemsOf(tbl, {id \in DOMAIN tbl :
                                /\ Has(tbl[id], hashKey)
                                /\ tbl[id][hashKey] = hashValue
                                /\ Has(tbl[id], "status")
                                /\ tbl[id].status = status})]

\* a filter field that is set: neither undefined nor the empty string
Truthy(filter, key) == Has(filter, key) /\ filter[key] # ""

\* the two queries of getPendingSessions, without the test that rejects a
\* filter lacking both userId and guildId
PendingQuery(tbl, filter) ==
  LET indexName == IF Truthy(filter, "userId") THEN "UserIndex"
                   ELSE "GuildIndex"
      hashValue == IF Truthy(filter, "userId") THEN filter.userId
                   ELSE IF Has(filter, "guildId") THEN filter.guildId ELSE ""
      call == [command |-> "Query", IndexName |-> indexName]
  IN IF Truthy(filter, "status")
     THEN [table |-> tbl, calls |-> <<call>>,
           ret |-> Value(QueryCommand(tbl, indexName, hashValue,
                                      filter.status).Items)]
     ELSE
       LET items == QueryCommand(tbl, indexName, hashValue, RUNNING).Items
       IN IF ~Truthy(filter, "channelId")
          THEN [table |-> tbl, calls |-> <<call>>, ret |-> Value(items)]
          ELSE IF \E i \in 1..Len(items) : ~Has(items[i], "metadata")
          THEN [table |-> tbl, calls |-> <<call>>, ret |-> Throw(TypeError)]
          ELSE [table |-> tbl, calls |-> <<call>>,
                ret |-> Value(SelectSeq(items,
                          LAMBDA it : it.metadata.channelId = filter.channelId))]

\* getPendingSessions without the userId/guildId requirement
getPendingSessions_noGuard(tbl, filter, clk) == PendingQuery(tbl, filter)

\* calls: the commands the handler sent to the backend
getPendingSessions(tbl, filter, clk) ==
  IF ~Truthy(filter, "userId") /\ ~Truthy(filter, "guildId")
  THEN [table |-> tbl, calls |-> <<>>, ret |-> Value(<<>>)]
  ELSE PendingQuery(tbl, filter)

\* ------------------------------------------------------------------ state
VARIABLES
  table,   \* the sessions table: sessionId -> stored item, for the stored ids
  now,     \* Date.now(), in milliseconds
  last,    \* the call that completed last: handler, arguments, return value
  inst     \* per process instance: where it is in its cycle

vars == <<table, now, last, inst>>

SessionIds == {"s1", "s2"}

Procs == {"p1", "p2"}

StartTimes == {0, 250}

ThetaStates == {[step |-> 1], [step |-> 2]}

\* the checkpoints a caller hands to saveState for sessionId
StateInputs(sessionId, statuses, startTimes, thetaStates) ==
  { [metadata |-> [sessionId |-> sessionId, userId |-> "u1",
                   channelId |-> "c1", status |-> st, startTime |-> t0,
                   lastUpdateTime |-> t0, expiresAt |-> 0],
     thetaState |-> th, context |-> [channelId |-> "c1"]] :
    st \in statuses, t0 \in startTimes, th \in thetaStates }

\* SaveStateOptions: {} , {ttl: 0}, {ttl: 1}
OptionInputs == {EmptyObject, [ttl |-> 0], [ttl |-> 1]}

NoCall == [op |-> "none"]

\* a process instance that is not running a cycle
Idle == [pc |-> "idle"]

Init ==
  /\ table = EmptyTable
  /\ now = 0
  /\ last = NoCall
  /\ inst = [p \in Procs |-> Idle]

\* ---------------------------------------------------------------- actions
\* the clock advances
Tick ==
  /\ now + TickMs <= MaxTicks * TickMs
  /\ now' = now + TickMs
  /\ UNCHANGED <<table, last, inst>>

SaveState(sessionId, state, options) ==
  LET r == saveState(table, sessionId, state, options, now) IN
  /\ table' = r.table
  /\ last' = [op |-> "saveState", sessionId |-> sessionId, state |-> state,
              options |-> options, ret |-> r.ret]
  /\ UNCHANGED <<now, inst>>

RestoreState(sessionId) ==
  LET r == restoreState(table, sessionId, now) IN
  /\ table' = r.table
  /\ last' = [op |-> "restoreState", sessionId |-> sessionId, ret |-> r.ret]
  /\ UNCHANGED <<now, inst>>

DeleteSession(sessionId) ==
  LET r == deleteSession(table, sessionId) IN
  /\ table' = r.table
  /\ last' = [op |-> "deleteSession", sessionId |-> sessionId, ret |-> r.ret]
  /\ UNCHANGED <<now, inst>>

UpdateStatus(sessionId, status) ==
  LET r == updateStatus(table, sessionId, status, now) IN
  /\ table' = r.table
  /\ last' = [op |-> "updateStatus", sessionId |-> sessionId,
              status |-> status, ret |-> r.ret]
  /\ UNCHANGED <<now, inst>>

UpdateStatusIf(sessionId, newStatus, expectedCurrentStatus) ==
  LET r == updateStatusIf(table, sessionId, newStatus, expectedCurrentStatus,
                          now) IN
  /\ table' = r.table
  /\ last' = [op |-> "updateStatusIf", sessionId |-> sessionId,
              newStatus |-> newStatus, expected |-> expectedCurrentStatus,
              ret |-> r.ret]
  /\ UNCHANGED <<now, inst>>

\* one caller issuing the store operations one after the other, on two
\* sessions whose checkpoints differ in their status
Next ==
  \/ Tick
  \/ \E id \in SessionIds :
       \E s \in StateInputs(id, SessionStatus, {0}, {[step |-> 1]}) :
         SaveState(id, s, EmptyObject)
  \/ \E id \in SessionIds : RestoreState(id)
  \/ \E id \in SessionIds : DeleteSession(id)
  \/ \E id \in SessionIds : \E st \in SessionStatus : UpdateStatus(id, st)
  \/ \E id \in SessionIds : \E n \in SessionStatus : \E e \in SessionStatus :
       UpdateStatusIf(id, n, e)

Spec == Init /\ [][Next]_vars

\* one caller issuing the store operations one after the other, on one
\* session, with every checkpoint and every option
NextCheckpoint ==
  \/ Tick
  \/ \E s \in StateInputs("s1", SessionStatus, StartTimes, ThetaStates) :
       \E o \in OptionInputs : SaveState("s1", s, o)
  \/ RestoreState("s1")
  \/ DeleteSession("s1")
  \/ \E st \in SessionStatus : UpdateStatus("s1", st)
  \/ \E n \in SessionStatus : \E e \in SessionStatus :
       UpdateStatusIf("s1", n, e)

SpecCheckpoint == Init /\ [][NextCheckpoint]_vars

\* ------------------------------------------------------ process instances
\* the checkpoint of the running cycle an instance holds in memory
CycleState(step) ==
  [metadata |-> [sessionId |-> "s1", userId |-> "u1", channelId |-> "c1",
                 status |-> RUNNING, startTime |-> 0, lastUpdateTime |-> 0,
                 expiresAt |-> 0],
   thetaState |-> [step |-> step], context |-> [channelId |-> "c1"]]

\* an instance that believes it owns the running cycle of s1
Owner == [pc |-> "owner", saves |-> 0, later |-> 0]

\* s1 was saved as RUNNING and both instances hold its checkpoint
InitRace ==
  /\ table = saveState(EmptyTable, "s1", CycleState(0), EmptyObject, 0).table
  /\ now = 0
  /\ last = NoCall
  /\ inst = [p \in Procs |-> Owner]

\* the instance checkpoints its in-flight work
Checkpoint(p) ==
  LET state == CycleState(inst[p].saves + 1)
      r == saveState(table, "s1", state, EmptyObject, now) IN
  /\ inst[p].pc = "owner"
  /\ inst[p].saves < MaxCheckpoints
  /\ table' = r.table
  /\ inst' = [inst EXCEPT ![p].saves = @ + 1]
  /\ last' = [op |-> "saveState", sessionId |-> "s1", state |-> state,
              options |-> EmptyObject, ret |-> r.ret]
  /\ UNCHANGED now

\* the instance builds the command of updateStatusIf(s1, newStatus, RUNNING),
\* Date.now() included, and sends it
FinalizeCall(p, newStatus) ==
  /\ inst[p].pc = "owner"
  /\ inst' = [inst EXCEPT ![p] =
                Spread(@, [pc |-> "finalizing", newStatus |-> newStatus,
                           expected |-> RUNNING, updated |-> now])]
  /\ UNCHANGED <<table, now, last>>

\* the backend evaluates and applies the conditional update; the call returns
FinalizeSend(p) ==
  LET c == inst[p]
      r == updateStatusIf(table, "s1", c.newStatus, c.expected, c.updated) IN
  /\ c.pc = "finalizing"
  /\ table' = r.table
  /\ inst' = [inst EXCEPT ![p] = Spread(@, [pc |-> "done", first |-> r.ret])]
  /\ last' = [op |-> "updateStatusIf", sessionId |-> "s1",
              newStatus |-> c.newStatus, expected |-> c.expected,
              ret |-> r.ret]
  /\ UNCHANGED now

\* an instance whose finalization returned calls updateStatusIf(s1, *, RUNNING)
\* again
LaterCall(p, newStatus) ==
  LET r == updateStatusIf(table, "s1", newStatus, RUNNING, now) IN
  /\ inst[p].pc = "done"
  /\ inst[p].later < MaxLater
  /\ table' = r.table
  /\ inst' = [inst EXCEPT ![p] =
                Spread(@, [later |-> @.later + 1, laterRet |-> r.ret])]
  /\ last' = [op |-> "updateStatusIf", sessionId |-> "s1",
              newStatus |-> newStatus, expected |-> RUNNING, ret |-> r.ret]
  /\ UNCHANGED now

\* two instances race to finalize s1
NextFinalize ==
  \/ Tick
  \/ \E p \in Procs : \E n \in TerminalStatus : FinalizeCall(p, n)
  \/ \E p \in Procs : FinalizeSend(p)
  \/ \E p \in Procs : \E n \in SessionStatus : LaterCall(p, n)

SpecFinalize == InitRace /\ [][NextFinalize]_vars

\* two instances checkpoint their in-flight work and race to finalize s1
NextRace ==
  \/ Tick
  \/ \E p \in Procs : Checkpoint(p)
  \/ \E p \in Procs : \E n \in TerminalStatus : FinalizeCall(p, n)
  \/ \E p \in Procs : FinalizeSend(p)
  \/ \E p \in Procs : \E n \in SessionStatus : LaterCall(p, n)

SpecRace == InitRace /\ [][NextRace]_vars

\* ------------------------------------------------------------- properties
Done(p) == inst[p].pc = "done"

Won(p) == Done(p) /\ inst[p].first = Value(TRUE)

\* a step of the single caller that is a call of the handler op
Called(op) == now' = now /\ inst' = inst /\ last'.op = op

Stored(id) == id \in DOMAIN table

\* C1: when two instances race updateStatusIf(s1, terminal, RUNNING) on the
\* RUNNING session s1, exactly one of the two calls returns true, the stored
\* status is the new status of the call that returned true, and every later
\* updateStatusIf(s1, *, RUNNING) returns false.
AtMostOnceFinalization ==
  /\ \A p \in Procs : \A q \in Procs \ {p} :
       Done(p) /\ Done(q) =>
         {inst[p].first, inst[q].first} = {Value(TRUE), Value(FALSE)}
  /\ \A p \in Procs : Won(p) => table["s1"].status = inst[p].newStatus
  /\ \A p \in Procs : Done(p) /\ inst[p].later > 0 =>
       inst[p].laterRet = Value(FALSE)

\* both calls returned, COMPLETED lost against FAILED, and a later call was made
FinalizationRaced ==
  /\ Done("p1") /\ Done("p2")
  /\ inst["p1"].newStatus = COMPLETED /\ inst["p2"].newStatus = FAILED
  /\ Won("p2") /\ inst["p1"].later > 0 /\ inst["p2"].later > 0

\* C2: on a stored record, updateStatusIf returns false and leaves the table
\* as it is when the stored status differs from expectedCurrentStatus, and
\* sets the status to newStatus and returns true when it is equal.
ConditionalTransition ==
  [][ Called("updateStatusIf") /\ last'.sessionId \in DOMAIN table =>
        LET id == last'.sessionId IN
        IF table[id].status = last'.expected
        THEN /\ last'.ret = Value(TRUE)
             /\ id \in DOMAIN table'
             /\ table'[id].status = last'.newStatus
        ELSE /\ last'.ret = Value(FALSE)
             /\ table' = table ]_vars

\* a PENDING record refused the transition out of RUNNING
TransitionRefused ==
  /\ last.op = "updateStatusIf" /\ last.ret = Value(FALSE)
  /\ last.expected = RUNNING /\ last.newStatus = COMPLETED
  /\ Stored(last.sessionId) /\ table[last.sessionId].status = PENDING

Edges ==
  {<<PENDING, RUNNING>>} \cup {<<RUNNING, t>> : t \in TerminalStatus}

\* C4 as stated: the stored status of a record only moves along the edges
\* PENDING -> RUNNING -> {COMPLETED, FAILED, CANCELLED}.
StatusFollowsEdges ==
  [][ \A id \in SessionIds :
        id \in DOMAIN table /\ id \in DOMAIN table'
        /\ table'[id].status # table[id].status
        => <<table[id].status, table'[id].status>> \in Edges ]_vars

\* C4 as amended: the stored status of a record changes only through a call
\* on its sessionId; saveState and updateStatus overwrite it with any status,
\* updateStatusIf changes it only from its expectedCurrentStatus to its
\* newStatus.
StatusChangesAsCalled ==
  [][ \A id \in SessionIds :
        id \in DOMAIN table /\ id \in DOMAIN table'
        /\ table'[id].status # table[id].status
        => /\ last'.sessionId = id
           /\ \/ Called("saveState")
              \/ Called("updateStatus")
              \/ /\ Called("updateStatusIf")
                 /\ last'.expected = table[id].status
                 /\ last'.newStatus = table'[id].status ]_vars

\* a COMPLETED record refused the transition from RUNNING back to RUNNING
TerminalKept ==
  /\ last.op = "updateStatusIf" /\ last.ret = Value(FALSE)
  /\ last.expected = RUNNING /\ last.newStatus = RUNNING
  /\ Stored(last.sessionId) /\ table[last.sessionId].status = COMPLETED

\* C9: restoreState of a sessionId that has no record returns null and
\* leaves the table as it is.
RestoreAbsentIsNull ==
  [][ Called("restoreState") /\ last'.sessionId \notin DOMAIN table =>
        last'.ret = Null /\ table' = table ]_vars

\* restoreState returned null for an absent id while another record is stored
RestoredAbsent ==
  /\ last.op = "restoreState" /\ last.ret = Null
  /\ ~Stored(last.sessionId) /\ table # EmptyTable

\* C3: when two instances that hold the RUNNING session s1 checkpoint their
\* in-flight work with saveState and then each call
\* updateStatusIf(s1, terminal, RUNNING), exactly one of the two calls
\* succeeds and the other observes false.
OneFinalizationRecorded ==
  \A p \in Procs : \A q \in Procs \ {p} :
    Done(p) /\ Done(q) =>
      {inst[p].first, inst[q].first} = {Value(TRUE), Value(FALSE)}

\* the record as restoreState finds it is not expired
Unexpired(id) ==
  /\ Stored(id) /\ Has(table[id], "expiresAt")
  /\ ~(now > table[id].expiresAt * 1000)

\* C5: saveState with a positive ttl followed by restoreState before expiry
\* returns a RestoredSession whose thetaState, context, sessionId, userId,
\* guildId, channelId, status and startTime equal those saved.
RoundTrip ==
  [][ /\ Called("restoreState") /\ last.op = "saveState"
      /\ last'.sessionId = last.sessionId
      /\ (Has(last.options, "ttl") => last.options.ttl > 0)
      /\ Unexpired(last.sessionId)
      => /\ last'.ret.kind = "value"
         /\ LET saved == last.state
                got == last'.ret.value.state IN
            /\ got.thetaState = saved.thetaState
            /\ got.context = saved.context
            /\ \A f \in {"sessionId", "userId", "guildId", "channelId",
                         "status", "startTime"} :
                 /\ Has(got.metadata, f) <=> Has(saved.metadata, f)
                 /\ Has(saved.metadata, f) =>
                      got.metadata[f] = saved.metadata[f] ]_vars

\* C6: restoreState of a record that is stored but expired deletes the
\* record and returns null.
ExpiredRestoreDeletes ==
  [][ /\ Called("restoreState")
      /\ Stored(last'.sessionId) /\ Has(table[last'.sessionId], "expiresAt")
      /\ now > table[last'.sessionId].expiresAt * 1000
      => /\ last'.ret = Null
         /\ last'.sessionId \notin DOMAIN table' ]_vars

\* C7: after saveState with ttl = 0, a restoreState of the same sessionId at
\* the same or any later clock value returns null and the record is deleted.
ZeroTtlUnretrievable ==
  [][ /\ Called("restoreState") /\ last.op = "saveState"
      /\ last'.sessionId = last.sessionId
      /\ Has(last.options, "ttl") /\ last.options.ttl = 0
      => /\ last'.ret = Null
         /\ last'.sessionId \notin DOMAIN table' ]_vars

\* C8: for a stored, unexpired record restoreState returns a RestoredSession
\* with resumable = (status = RUNNING) and elapsed = now - startTime.
ResumableIffRunning ==
  [][ /\ Called("restoreState") /\ Unexpired(last'.sessionId)
      /\ Has(table[last'.sessionId], "startTime")
      => /\ last'.ret.kind = "value"
         /\ last'.ret.value.resumable
              = (table[last'.sessionId].status = RUNNING)
         /\ last'.ret.value.elapsed
              = now - table[last'.sessionId].startTime ]_vars

\* ------------------------------------------------------ the §8 scenario
\* one caller runs save -> restore -> updateStatusIf(RUNNING) -> restore on s1
InitScenario ==
  /\ table = EmptyTable
  /\ now = 0
  /\ last = NoCall
  /\ inst = [p \in Procs |-> IF p = "p1" THEN [pc |-> "start"] ELSE Idle]

ScenarioSave(state, options) ==
  LET r == saveState(table, "s1", state, options, now) IN
  /\ inst["p1"].pc = "start"
  /\ table' = r.table
  /\ inst' = [inst EXCEPT !["p1"] = [pc |-> "saved", state |-> state]]
  /\ last' = [op |-> "saveState", sessionId |-> "s1", state |-> state,
              options |-> options, ret |-> r.ret]
  /\ UNCHANGED now

ScenarioRestore ==
  LET r == restoreState(table, "s1", now) IN
  /\ inst["p1"].pc = "saved"
  /\ table' = r.table
  /\ inst' = [inst EXCEPT !["p1"] = Spread(@, [pc |-> "restored", r1 |-> r.ret])]
  /\ last' = [op |-> "restoreState", sessionId |-> "s1", ret |-> r.ret]
  /\ UNCHANGED now

ScenarioFinalize(newStatus) ==
  LET r == updateStatusIf(table, "s1", newStatus, RUNNING, now) IN
  /\ inst["p1"].pc = "restored"
  /\ table' = r.table
  /\ inst' = [inst EXCEPT !["p1"] = Spread(@, [pc |-> "finalized", r2 |-> r.ret])]
  /\ last' = [op |-> "updateStatusIf", sessionId |-> "s1",
              newStatus |-> newStatus, expected |-> RUNNING, ret |-> r.ret]
  /\ UNCHANGED now

ScenarioInspect ==
  LET r == restoreState(table, "s1", now) IN
  /\ inst["p1"].pc = "finalized"
  /\ table' = r.table
  /\ inst' = [inst EXCEPT !["p1"] = Spread(@, [pc |-> "inspected", r3 |-> r.ret])]
  /\ last' = [op |-> "restoreState", sessionId |-> "s1", ret |-> r.ret]
  /\ UNCHANGED now

NextScenario ==
  \/ Tick
  \/ \E s \in StateInputs("s1", {RUNNING}, StartTimes, ThetaStates) :
       \E o \in {[ttl |-> 3600], EmptyObject} : ScenarioSave(s, o)
  \/ ScenarioRestore
  \/ \E n \in TerminalStatus : ScenarioFinalize(n)
  \/ ScenarioInspect

SpecScenario == InitScenario /\ [][NextScenario]_vars

\* C10: from an empty store, after saveState of a RUNNING s1 with ttl 3600,
\* restoreState(s1) returns resumable = true with the saved thetaState, then
\* updateStatusIf(s1, COMPLETED, RUNNING) returns true, then restoreState(s1)
\* returns a result with resumable = false.
ScenarioOrdering ==
  LET c == inst["p1"] IN
  /\ c.pc \in {"restored", "finalized", "inspected"} =>
       /\ c.r1.kind = "value"
       /\ c.r1.value.resumable
       /\ c.r1.value.state.thetaState = c.state.thetaState
  /\ c.pc \in {"finalized", "inspected"} => c.r2 = Value(TRUE)
  /\ c.pc = "inspected" =>
       /\ c.r3.kind = "value"
       /\ ~c.r3.value.resumable

\* ------------------------------------------------------------ maintenance
CleanupExpiredSessions ==
  LET r == cleanupExpiredSessions(table, now) IN
  /\ table' = r.table
  /\ last' = [op |-> "cleanupExpiredSessions", ret |-> r.ret]
  /\ UNCHANGED <<now, inst>>

CleanupIds == {"s1", "s2", "s3"}

\* one caller saving RUNNING and COMPLETED sessions that expire at once or a
\* second later, putting sessions to RUNNING, and sweeping the table
NextCleanup ==
  \/ Tick
  \/ \E id \in CleanupIds :
       \E s \in StateInputs(id, {RUNNING, COMPLETED}, {0}, {[step |-> 1]}) :
         \E o \in {[ttl |-> 0], [ttl |-> 1]} : SaveState(id, s, o)
  \/ \E id \in CleanupIds : UpdateStatus(id, RUNNING)
  \/ CleanupExpiredSessions

SpecCleanup == Init /\ [][NextCleanup]_vars

\* the RUNNING records whose expiresAt lies before the current whole second
ExpiredRunning ==
  {id \in DOMAIN table : /\ table[id].status = RUNNING
                         /\ Has(table[id], "expiresAt")
                         /\ table[id].expiresAt < now \div 1000}

\* C11: cleanupExpiredSessions deletes exactly the N RUNNING records whose
\* expiresAt is in the past, leaves every other record in place, and
\* returns N.
CleanupCorrect ==
  [][ Called("cleanupExpiredSessions") =>
        /\ DOMAIN table' = (DOMAIN table) \ ExpiredRunning
        /\ \A id \in DOMAIN table' : table'[id] = table[id]
        /\ last'.ret = Value(Cardinality(ExpiredRunning)) ]_vars

\* a sweep removed two expired records and left an unexpired RUNNING one
CleanupSwept ==
  /\ last.op = "cleanupExpiredSessions" /\ last.ret = Value(2)
  /\ \E id \in DOMAIN table :
       table[id].status = RUNNING /\ table[id].expiresAt >= now \div 1000

\* ---------------------------------------------------------------- queries
GetPendingSessions(filter) ==
  LET r == getPendingSessions(table, filter, now) IN
  /\ table' = r.table
  /\ last' = [op |-> "getPendingSessions", filter |-> filter,
              calls |-> r.calls, ret |-> r.ret]
  /\ UNCHANGED <<now, inst>>

\* the objects that set each key of choices to one of its values, or not at all
RECURSIVE Objects(_)
Objects(choices) ==
  IF DOMAIN choices = {} THEN {EmptyObject}
  ELSE LET k == CHOOSE key \in DOMAIN choices : TRUE
           rest == Objects(Omit(choices, {k}))
       IN rest \cup {Spread(o, [x \in {k} |-> v]) : o \in rest, v \in choices[k]}

\* PendingSessionsFilter
FilterInputs ==
  Objects([userId |-> {"u1", "u2"}, guildId |-> {"g1"},
           status |-> {RUNNING, COMPLETED}, channelId |-> {"c1", "c2"}])

\* checkpoints of the sessions of two users, in or out of a guild, in two
\* channels
QueryStateInputs(sessionId) ==
  { [metadata |-> Spread([sessionId |-> sessionId, userId |-> u,
                          channelId |-> ch, status |-> st, startTime |-> 0,
                          lastUpdateTime |-> 0, expiresAt |-> 0], g),
     thetaState |-> [step |-> 1], context |-> [channelId |-> ch]] :
    u \in {"u1", "u2"}, ch \in {"c1", "c2"}, st \in {RUNNING, COMPLETED},
    g \in {EmptyObject, [guildId |-> "g1"]} }

\* one caller saving sessions, changing their status and listing them
NextQuery ==
  \/ \E id \in SessionIds : \E s \in QueryStateInputs(id) :
       SaveState(id, s, EmptyObject)
  \/ \E id \in SessionIds : \E st \in {RUNNING, COMPLETED} :
       UpdateStatus(id, st)
  \/ \E f \in FilterInputs : GetPendingSessions(f)

SpecQuery == Init /\ [][NextQuery]_vars

\* the elements of a sequence
Range(seq) == {seq[i] : i \in 1..Len(seq)}

\* C12: getPendingSessions with a filter that has neither userId nor guildId
\* returns an empty sequence and sends no command to the backend.
UnscopedFilterRejected ==
  [][ /\ Called("getPendingSessions")
      /\ ~Has(last'.filter, "userId") /\ ~Has(last'.filter, "guildId")
      => /\ last'.ret = Value(<<>>)
         /\ last'.calls = <<>>
         /\ table' = table ]_vars

\* a filter with only status and channelId got nothing from a table that
\* holds a RUNNING session of that channel
UnscopedAnswered ==
  /\ last.op = "getPendingSessions"
  /\ last.filter = [status |-> RUNNING, channelId |-> "c1"]
  /\ last.calls = <<>>
  /\ \E id \in DOMAIN table :
       /\ table[id].status = RUNNING
       /\ Has(table[id], "channelId") /\ table[id].channelId = "c1"

\* the stored records a filter with userId or guildId selects through its index
IndexMatches(filter) ==
  LET hashKey == IF Has(filter, "userId") THEN "userId" ELSE "guildId"
      status == IF Has(filter, "status") THEN filter.status ELSE "RUNNING"
  IN {table[id] : id \in {i \in DOMAIN table :
                            /\ Has(table[i], hashKey)
                            /\ table[i][hashKey] = filter[hashKey]
                            /\ table[i].status = status}}

ChannelFilterApplied ==
  [][ /\ Called("getPendingSessions")
      /\ Has(last'.filter, "userId") # Has(last'.filter, "guildId")
      /\ Has(last'.filter, "channelId")
      => /\ last'.ret.kind = "value"
         /\ Range(last'.ret.value) =
              {it \in IndexMatches(last'.filter) :
                 Has(it, "channelId") /\ it.channelId = last'.filter.channelId}
     ]_vars

\* ------------------------------------------------------------ overwriting
\* checkpoints with and without a guildId and a recorded error
SaveStateInputs(sessionId) ==
  { Spread([metadata |-> Spread([sessionId |-> sessionId, userId |-> "u1",
                                 channelId |-> "c1", status |-> RUNNING,
                                 startTime |-> 0, lastUpdateTime |-> 0,
                                 expiresAt |-> 0], g),
            thetaState |-> th, context |-> [channelId |-> "c1"]], e) :
    th \in ThetaStates, g \in {EmptyObject, [guildId |-> "g1"]},
    e \in {EmptyObject, [error |-> "boom"]} }

\* one caller saving and deleting the checkpoints of two sessions
NextSave ==
  \/ Tick
  \/ \E id \in SessionIds : \E s \in SaveStateInputs(id) :
       \E o \in {EmptyObject, [includeError |-> TRUE],
                 [includeError |-> FALSE]} : SaveState(id, s, o)
  \/ \E id \in SessionIds : DeleteSession(id)

SpecSave == Init /\ [][NextSave]_vars

\* every record but the one of id is stored as before
OthersUntouched(id) ==
  \A o \in ((DOMAIN table) \cup (DOMAIN table')) \ {id} :
    o \in DOMAIN table /\ o \in DOMAIN table' /\ table'[o] = table[o]

\* C15: deleteSession does not fail, leaves no record of its sessionId, leaves
\* a table without such a record as it is (so a second call changes
\* nothing), and never affects the record of another sessionId.
DeleteIdempotent ==
  [][ Called("deleteSession") =>
        /\ last'.ret = Void
        /\ last'.sessionId \notin DOMAIN table'
        /\ OthersUntouched(last'.sessionId)
        /\ last'.sessionId \notin DOMAIN table => table' = table ]_vars

\* deleteSession returned for an id without record while another is stored
DeletedAbsent ==
  /\ last.op = "deleteSession" /\ last.ret = Void
  /\ ~Stored(last.sessionId) /\ table # EmptyTable

\* the attributes a stored record takes from the caller's metadata
CallerFields ==
  {"userId", "guildId", "channelId", "status", "startTime"}

\* the attributes saveState computes at each call
Recomputed == {"lastUpdateTime", "expiresAt"}

\* C18: after saveState(id, s) the record of id carries s's thetaState,
\* context and metadata and nothing of the record stored before; a retry of
\* the same call leaves the record the same but for lastUpdateTime and
\* expiresAt; the records of other sessionIds are untouched.
SaveOverwrites ==
  [][ Called("saveState") =>
        LET id == last'.sessionId
            st == last'.state IN
        /\ id \in DOMAIN table'
        /\ table'[id].sessionId = id
        /\ table'[id].thetaState = st.thetaState
        /\ table'[id].context = st.context
        /\ \A f \in CallerFields :
             /\ Has(table'[id], f) <=> Has(st.metadata, f)
             /\ Has(st.metadata, f) => table'[id][f] = st.metadata[f]
        /\ (DOMAIN table'[id]) \ {"error"} =
             (CallerFields \cap (DOMAIN st.metadata))
               \cup Recomputed \cup {"sessionId", "thetaState", "context"}
        /\ ( /\ last.op = "saveState" /\ last = last'
             /\ id \in DOMAIN table )
           => Omit(table'[id], Recomputed) = Omit(table[id], Recomputed)
        /\ OthersUntouched(id) ]_vars

\* a later save without guildId replaced a record, beside a record with one
SavedOver ==
  /\ last.op = "saveState" /\ now > 0
  /\ Stored(last.sessionId) /\ table[last.sessionId].lastUpdateTime = now
  /\ ~Has(table[last.sessionId], "guildId")
  /\ \E o \in DOMAIN table : Has(table[o], "guildId") /\ ~Has(table[o], "error")

\* C19: the stored record carries the error of the state exactly when
\* options.includeError is set and the state has one; otherwise it has no
\* error attribute, whatever the record stored before had.
ErrorOnlyOnRequest ==
  [][ Called("saveState") =>
        LET item == table'[last'.sessionId]
            include == /\ Has(last'.options, "includeError")
                       /\ last'.options.includeError IN
        IF include /\ Has(last'.state, "error")
        THEN Has(item, "error") /\ item.error = last'.state.error
        ELSE ~Has(item, "error") ]_vars

\* a state carrying an error was saved without includeError
ErrorDropped ==
  /\ last.op = "saveState" /\ Has(last.state, "error")
  /\ last.options = [includeError |-> FALSE]
  /\ Stored(last.sessionId) /\ ~Has(table[last.sessionId], "error")
  /\ \E o \in DOMAIN table : Has(table[o], "error")

\* ---------------------------------------------------- expiresAt, startTime
\* C16: every saveState stores expiresAt = whole epoch seconds of the current
\* time + ttl, where ttl is options.ttl when given (0 included) and 3600
\* otherwise, whatever expiresAt the caller's metadata carries.
ExpiresAtComputed ==
  [][ Called("saveState") =>
        LET ttl == IF Has(last'.options, "ttl") THEN last'.options.ttl
                   ELSE 3600 IN
        /\ last'.sessionId \in DOMAIN table'
        /\ table'[last'.sessionId].expiresAt = (now \div 1000) + ttl ]_vars

\* a save with ttl 0 stored the current second, not the carried expiresAt
ZeroTtlStored ==
  /\ last.op = "saveState" /\ last.options = [ttl |-> 0]
  /\ now >= 1000 /\ Stored(last.sessionId)
  /\ table[last.sessionId].expiresAt = now \div 1000
  /\ table[last.sessionId].expiresAt # last.state.metadata.expiresAt

\* the attributes a status update has to leave alone
FrameFields ==
  {"expiresAt", "startTime", "thetaState", "context", "userId", "guildId",
   "channelId"}

\* the attribute f of the record of id, as a set: empty when there is none
Attr(tbl, id, f) ==
  IF id \in DOMAIN tbl /\ Has(tbl[id], f) THEN {tbl[id][f]} ELSE {}

\* C17: updateStatus and updateStatusIf leave expiresAt, startTime,
\* thetaState, context, userId, guildId and channelId of the record as they
\* are, and every stored record has an expiresAt (computed by a saveState).
ExpiresAtOnlyBySave ==
  [][ /\ \A id \in DOMAIN table' : Has(table'[id], "expiresAt")
      /\ (Called("updateStatus") \/ Called("updateStatusIf")) =>
           \A f \in FrameFields :
             Attr(table', last'.sessionId, f) = Attr(table, last'.sessionId, f)
    ]_vars

\* C20 as stated: the startTime stored for a sessionId never changes while
\* its record is stored.
StartTimeImmutable ==
  [][ \A id \in (DOMAIN table) \cap (DOMAIN table') :
        Attr(table, id, "startTime") # {} =>
          Attr(table', id, "startTime") = Attr(table, id, "startTime") ]_vars

\* C20 as amended: updateStatus and updateStatusIf never change the stored
\* startTime; it changes only when saveState stores the startTime of the
\* state it is given or when the record is removed.
StartTimeAsSaved ==
  [][ \A id \in (DOMAIN table) \cup (DOMAIN table') :
        /\ Called("saveState") /\ last'.sessionId = id =>
             Attr(table', id, "startTime") = {last'.state.metadata.startTime}
        /\ Attr(table', id, "startTime") # Attr(table, id, "startTime") =>
             \/ Called("saveState") /\ last'.sessionId = id
             \/ id \notin DOMAIN table' ]_vars

\* a status update went through on a record saved with a later startTime
StartTimeKept ==
  /\ last.op \in {"updateStatus", "updateStatusIf"}
  /\ now > 0 /\ Stored(last.sessionId)
  /\ table[last.sessionId].lastUpdateTime = now
  /\ Attr(table, last.sessionId, "startTime") = {250}

\* ------------------------------------------------------- writes and retries
\* C21: after each saveState, updateStatus and updateStatusIf that returned
\* true the stored lastUpdateTime is the time of the call; an updateStatusIf
\* that returned false leaves it as it was; while a record stays stored its
\* lastUpdateTime never decreases.
LastUpdateTimeTracksWrites ==
  [][ /\ ( \/ Called("saveState") \/ Called("updateStatus")
           \/ Called("updateStatusIf") /\ last'.ret = Value(TRUE) )
         => /\ last'.sessionId \in DOMAIN table'
            /\ table'[last'.sessionId].lastUpdateTime = now
      /\ Called("updateStatusIf") /\ last'.ret = Value(FALSE)
         => Attr(table', last'.sessionId, "lastUpdateTime")
              = Attr(table, last'.sessionId, "lastUpdateTime")
      /\ \A id \in (DOMAIN table) \cap (DOMAIN table') :
           table'[id].lastUpdateTime >= table[id].lastUpdateTime ]_vars

\* a conditional update applied after the clock moved on a saved record
UpdateStamped ==
  /\ last.op = "updateStatusIf" /\ last.ret = Value(TRUE)
  /\ now > 0 /\ Stored(last.sessionId)
  /\ Has(table[last.sessionId], "thetaState")
  /\ table[last.sessionId].lastUpdateTime = now

\* C22: updateStatus on an existing record returns normally and stores the
\* given status, whatever status was stored (a terminal one included).
UpdateStatusUnconditional ==
  [][ Called("updateStatus") /\ Stored(last'.sessionId) =>
        /\ last'.ret = Void
        /\ last'.sessionId \in DOMAIN table'
        /\ table'[last'.sessionId].status = last'.status
        /\ Omit(table'[last'.sessionId], {"status", "lastUpdateTime"})
             = Omit(table[last'.sessionId], {"status", "lastUpdateTime"})
    ]_vars

\* updateStatus put a saved record back to RUNNING
SetToRunning ==
  /\ last.op = "updateStatus" /\ last.status = RUNNING /\ last.ret = Void
  /\ Stored(last.sessionId) /\ Has(table[last.sessionId], "thetaState")
  /\ table[last.sessionId].status = RUNNING

\* C23: an updateStatusIf(id, newStatus, expected) with newStatus # expected
\* that directly follows the same call returns false and leaves the whole
\* table as the first call left it.
RetryNotApplied ==
  [][ /\ last.op = "updateStatusIf" /\ Called("updateStatusIf")
      /\ last'.sessionId = last.sessionId
      /\ last'.newStatus = last.newStatus /\ last'.expected = last.expected
      /\ last.newStatus # last.expected
      /\ last.ret \in {Value(TRUE), Value(FALSE)}
      => last'.ret = Value(FALSE) /\ table' = table ]_vars

\* a call that found its transition already applied returned false
RetryRefused ==
  /\ last.op = "updateStatusIf" /\ last.ret = Value(FALSE)
  /\ last.newStatus # last.expected /\ Stored(last.sessionId)
  /\ table[last.sessionId].status = last.newStatus

\* --------------------------------------------------------- backend failures
\* commands of one call the injected failure may hit
MaxFaultAt == 3

\* errors docClient.send rejects with, other than a failed condition
BackendFaults ==
  {[name |-> "ProvisionedThroughputExceededException",
    code |-> "ProvisionedThroughputExceededException"],
   [name |-> "TimeoutError"]}

\* the at-th command the call sends is rejected with error; at 0: none is
NoFault == [at |-> 0]

FaultInputs(maxAt) ==
  {NoFault} \cup [at : 1..maxAt, error : BackendFaults]

\* a handler that sends one command and has no try/catch around it
SendOnce(tbl, fault, r) ==
  IF fault.at = 1 THEN [table |-> tbl, ret |-> Throw(fault.error), sends |-> 1]
  ELSE [table |-> r.table, ret |-> r.ret, sends |-> 1]

saveStateOn(tbl, sessionId, state, options, clk, fault) ==
  SendOnce(tbl, fault, saveState(tbl, sessionId, state, options, clk))

\* the GetCommand is rejected; the later delete is the one of deleteSession
restoreStateOn(tbl, sessionId, clk, fault) ==
  SendOnce(tbl, fault, restoreState(tbl, sessionId, clk))

deleteSessionOn(tbl, sessionId, fault) ==
  SendOnce(tbl, fault, deleteSession(tbl, sessionId))

updateStatusOn(tbl, sessionId, status, clk, fault) ==
  SendOnce(tbl, fault, updateStatus(tbl, sessionId, status, clk))

\* updateStatusIf whose catch returns false for every error
updateStatusIfOn_swallow(tbl, sessionId, newStatus, expectedCurrentStatus, clk, fault) ==
  IF fault.at = 1 THEN [table |-> tbl, ret |-> Value(FALSE), sends |-> 1]
  ELSE LET r == updateStatusIf(tbl, sessionId, newStatus,
                               expectedCurrentStatus, clk)
       IN [table |-> r.table, ret |-> r.ret, sends |-> 1]

\* the catch of updateStatusIf applied to the error the send rejects with
updateStatusIfOn(tbl, sessionId, newStatus, expectedCurrentStatus, clk, fault) ==
  IF fault.at = 1
  THEN IF /\ Has(fault.error, "code")
          /\ fault.error.code = "ConditionalCheckFailedException"
       THEN [table |-> tbl, ret |-> Value(FALSE), sends |-> 1]
       ELSE [table |-> tbl, ret |-> Throw(fault.error), sends |-> 1]
  ELSE LET r == updateStatusIf(tbl, sessionId, newStatus,
                               expectedCurrentStatus, clk)
       IN [table |-> r.table, ret |-> r.ret, sends |-> 1]

\* the filter test sends nothing; the query is the only command
getPendingSessionsOn(tbl, filter, clk, fault) ==
  LET r == getPendingSessions(tbl, filter, clk) IN
  IF r.calls = <<>> THEN [table |-> r.table, ret |-> r.ret, sends |-> 0]
  ELSE SendOnce(tbl, fault, r)

\* the loop of cleanupExpiredSessions, sent commands counted from sent
RECURSIVE DeleteEachOn(_, _, _, _)
DeleteEachOn(tbl, items, sent, fault) ==
  IF items = <<>> THEN [table |-> tbl, sends |-> sent, failed |-> FALSE]
  ELSE IF ~Has(Head(items), "sessionId")
  THEN DeleteEachOn(tbl, Tail(items), sent, fault)
  ELSE IF fault.at = sent + 1
  THEN [table |-> tbl, sends |-> sent + 1, failed |-> TRUE]
  ELSE DeleteEachOn(deleteSession(tbl, Head(items).sessionId).table,
                    Tail(items), sent + 1, fault)

cleanupExpiredSessionsOn(tbl, clk, fault) ==
  IF fault.at = 1 THEN [table |-> tbl, ret |-> Throw(fault.error), sends |-> 1]
  ELSE
    LET expired == ScanCommand(tbl, RUNNING, clk \div 1000).Items
        loop == DeleteEachOn(tbl, expired, 1, fault)
    IN [table |-> loop.table,
        ret |-> IF loop.failed THEN Throw(fault.error)
                ELSE Value(Len(expired)),
        sends |-> loop.sends]

\* a call of op whose result is r, under the failure fault
Completed(op, fault, r) ==
  /\ table' = r.table
  /\ last' = [op |-> op, fault |-> fault, sends |-> r.sends, ret |-> r.ret]
  /\ UNCHANGED <<now, inst>>

\* a RUNNING checkpoint that expires within the second it is saved in
ExpiringState(id) ==
  CHOOSE s \in StateInputs(id, {RUNNING}, {0}, {[step |-> 1]}) : TRUE

\* one caller issuing every store operation while single commands fail
NextFault ==
  \/ Tick
  \/ \E id \in SessionIds : \E f \in FaultInputs(1) :
       Completed("saveState", f,
                 saveStateOn(table, id, ExpiringState(id), [ttl |-> 0], now, f))
  \/ \E id \in SessionIds : \E f \in FaultInputs(1) :
       Completed("restoreState", f, restoreStateOn(table, id, now, f))
  \/ \E id \in SessionIds : \E f \in FaultInputs(1) :
       Completed("deleteSession", f, deleteSessionOn(table, id, f))
  \/ \E id \in SessionIds : \E f \in FaultInputs(1) :
       Completed("updateStatus", f,
                 updateStatusOn(table, id, RUNNING, now, f))
  \/ \E id \in SessionIds : \E f \in FaultInputs(1) :
       Completed("updateStatusIf", f,
                 updateStatusIfOn(table, id, COMPLETED, RUNNING, now, f))
  \/ \E filter \in {EmptyObject, [userId |-> "u1"]} : \E f \in FaultInputs(1) :
       Completed("getPendingSessions", f,
                 getPendingSessionsOn(table, filter, now, f))
  \/ \E f \in FaultInputs(MaxFaultAt) :
       Completed("cleanupExpiredSessions", f,
                 cleanupExpiredSessionsOn(table, now, f))

SpecFault == Init /\ [][NextFault]_vars

\* C24: when a command a store operation sends is rejected with an error
\* other than the failed condition, the operation throws that very error
\* (no null, false, list or count) and sends no further command.
FailuresReraised ==
  /\ Has(last, "fault") /\ last.fault.at \in 1..last.sends
     => /\ last.ret = Throw(last.fault.error)
        /\ last.sends = last.fault.at
  /\ Has(last, "fault") /\ last.ret.kind = "throw"
     /\ last.ret.error \in BackendFaults
     => last.fault.at = last.sends

\* the sweep failed on its second delete, after removing one record
SweepInterrupted ==
  /\ last.op = "cleanupExpiredSessions" /\ last.fault.at = 3
  /\ last.ret = Throw(last.fault.error)
  /\ Cardinality(DOMAIN table) = 1

\* ------------------------------------------------------ reuse of sessionIds
\* inst remembers the sessionIds whose record has been removed so far
InitReuse ==
  /\ table = EmptyTable
  /\ now = 0
  /\ last = NoCall
  /\ inst = [removed |-> {}]

\* a call of op on sessionId whose result is r
Reuse(op, sessionId, r) ==
  /\ table' = r.table
  /\ last' = [op |-> op, sessionId |-> sessionId, ret |-> r.ret]
  /\ inst' = [removed |-> inst.removed \cup ((DOMAIN table) \ (DOMAIN r.table))]
  /\ now' = now

\* one caller saving, updating and removing the records of two sessions
NextReuse ==
  \/ Tick
  \/ \E id \in SessionIds :
       Reuse("saveState", id,
             saveState(table, id, ExpiringState(id), [ttl |-> 0], now))
  \/ \E id \in SessionIds :
       Reuse("restoreState", id, restoreState(table, id, now))
  \/ \E id \in SessionIds :
       Reuse("deleteSession", id, deleteSession(table, id))
  \/ \E id \in SessionIds : \E st \in {RUNNING, COMPLETED} :
       Reuse("updateStatus", id, updateStatus(table, id, st, now))
  \/ \E id \in SessionIds :
       Reuse("updateStatusIf", id,
             updateStatusIf(table, id, COMPLETED, RUNNING, now))
  \/ Reuse("cleanupExpiredSessions", "", cleanupExpiredSessions(table, now))

SpecReuse == InitReuse /\ [][NextReuse]_vars

\* C25: once the record of a sessionId has been removed, the table never
\* holds a record with that sessionId again.
NeverReused == inst.removed \cap (DOMAIN table) = {}

\* ------------------------------------------------------------------ strings
\* a JavaScript string is the sequence of its characters
UpperCase ==
  <<"A", "B", "C", "D", "E", "F", "G", "H", "I", "J", "K", "L", "M",
    "N", "O", "P", "Q", "R", "S", "T", "U", "V", "W", "X", "Y", "Z">>

LowerCase ==
  <<"a", "b", "c", "d", "e", "f", "g", "h", "i", "j", "k", "l", "m",
    "n", "o", "p", "q", "r", "s", "t", "u", "v", "w", "x", "y", "z">>

LowerChar(c) ==
  IF \E i \in 1..26 : UpperCase[i] = c
  THEN LowerCase[CHOOSE i \in 1..26 : UpperCase[i] = c] ELSE c

UpperChar(c) ==
  IF \E i \in 1..26 : LowerCase[i] = c
  THEN UpperCase[CHOOSE i \in 1..26 : LowerCase[i] = c] ELSE c

\* String.prototype.toLowerCase
toLowerCase(s) == [i \in 1..Len(s) |-> LowerChar(s[i])]

\* new Error(message)
Error(message) == [name |-> "Error", message |-> message]

\* a template literal: its fixed text and the values interpolated into it
Template(literal, values) == [literal |-> literal, values |-> values]

\* ----------------------------------------------------------- tmux service
\* the own properties of paneMap
paneMap ==
  <<"c", "o", "n", "d", "u", "c", "t", "o", "r">> :> "%27" @@
  <<"s", "h", "i", "k", "i", "r", "u", "n">> :> "%27" @@
  <<"k", "a", "e", "d", "e">> :> "miyabi:codex.0" @@
  <<"c", "o", "d", "e", "g", "e", "n">> :> "miyabi:codex.0" @@
  <<"s", "a", "k", "u", "r", "a">> :> "miyabi:codex.1" @@
  <<"r", "e", "v", "i", "e", "w">> :> "miyabi:codex.1" @@
  <<"t", "s", "u", "b", "a", "k", "i">> :> "miyabi:codex.2" @@
  <<"p", "r">> :> "miyabi:codex.2" @@
  <<"b", "o", "t", "a", "n">> :> "miyabi:codex.3" @@
  <<"d", "e", "p", "l", "o", "y">> :> "miyabi:codex.3"

\* the properties an object literal inherits from Object.prototype, all of
\* them truthy: functions and the prototype object itself, none a string;
\* each is written as the name of the value
ObjectPrototype ==
  <<"c", "o", "n", "s", "t", "r", "u", "c", "t", "o", "r">> :> "function Object" @@
  <<"_", "_", "p", "r", "o", "t", "o", "_", "_">> :> "object Object.prototype" @@
  <<"t", "o", "S", "t", "r", "i", "n", "g">> :> "function toString" @@
  <<"v", "a", "l", "u", "e", "O", "f">> :> "function valueOf"

\* paneMap[agentLower] reads an own property, else an inherited one, else
\* undefined; "!paneId" is true for undefined only
resolvePaneId(agent) ==
  LET agentLower == toLowerCase(agent) IN
  IF agentLower \in DOMAIN paneMap THEN Value(paneMap[agentLower])
  ELSE IF agentLower \in DOMAIN ObjectPrototype
  THEN Value(ObjectPrototype[agentLower])
  ELSE Throw(Error(Template("Unknown agent: ", <<agent>>)))

\* the spellings of a name in upper and lower case letters
RECURSIVE CaseVariants(_)
CaseVariants(name) ==
  IF name = <<>> THEN {<<>>}
  ELSE {<<c>> \o rest : c \in {Head(name), UpperChar(Head(name))},
                        rest \in CaseVariants(Tail(name))}

\* a name as it is, in capitals and with a capital first letter
Spellings(name) ==
  {name, [i \in 1..Len(name) |-> UpperChar(name[i])],
   [i \in 1..Len(name) |-> IF i = 1 THEN UpperChar(name[i]) ELSE name[i]]}

\* longest name of which every spelling is tried
MaxVariantLen == 5

\* agent names handed to resolvePaneId
AgentInputs ==
  UNION {IF Len(name) <= MaxVariantLen THEN CaseVariants(name)
         ELSE Spellings(name) :
           name \in (DOMAIN paneMap) \cup (DOMAIN ObjectPrototype)
                    \cup {<<>>, <<"u", "n", "k", "n", "o", "w", "n", "-", "a", "g", "e", "n", "t">>, <<"t", "m", "u", "x">>}}

ResolvePaneId(agent) ==
  /\ last' = [op |-> "resolvePaneId", agent |-> agent,
              ret |-> resolvePaneId(agent)]
  /\ UNCHANGED <<table, now, inst>>

NextPane == \E agent \in AgentInputs : ResolvePaneId(agent)

SpecPane == Init /\ [][NextPane]_vars

\* the pane ids of the ten agent names
ExpectedPane ==
  <<"c", "o", "n", "d", "u", "c", "t", "o", "r">> :> "%27" @@
  <<"s", "h", "i", "k", "i", "r", "u", "n">> :> "%27" @@
  <<"k", "a", "e", "d", "e">> :> "miyabi:codex.0" @@
  <<"c", "o", "d", "e", "g", "e", "n">> :> "miyabi:codex.0" @@
  <<"s", "a", "k", "u", "r", "a">> :> "miyabi:codex.1" @@
  <<"r", "e", "v", "i", "e", "w">> :> "miyabi:codex.1" @@
  <<"t", "s", "u", "b", "a", "k", "i">> :> "miyabi:codex.2" @@
  <<"p", "r">> :> "miyabi:codex.2" @@
  <<"b", "o", "t", "a", "n">> :> "miyabi:codex.3" @@
  <<"d", "e", "p", "l", "o", "y">> :> "miyabi:codex.3"

\* C30: for every name whose lower-cased form is one of the ten agent names
\* resolvePaneId returns that agent's pane id, and for every other name, the
\* empty string included, it throws an "Unknown agent" error.
PaneResolved ==
  last.op = "resolvePaneId" =>
    LET name == [i \in 1..Len(last.agent) |-> LowerChar(last.agent[i])] IN
    IF name \in DOMAIN ExpectedPane
    THEN last.ret = Value(ExpectedPane[name])
    ELSE /\ last.ret.kind = "throw"
         /\ last.ret.error.message.literal = "Unknown agent: "

\* ----------------------------------------------------- more string methods
Whitespace == {" ", "\t", "\n"}

\* String.prototype.startsWith
startsWith(s, prefix) ==
  Len(s) >= Len(prefix) /\ SubSeq(s, 1, Len(prefix)) = prefix

\* the first index from i on whose character is (isWs) or is not whitespace,
\* Len(s) + 1 when there is none
IndexFrom(s, i, isWs) ==
  LET hits == {j \in i..Len(s) : (s[j] \in Whitespace) = isWs}
  IN IF hits = {} THEN Len(s) + 1
     ELSE CHOOSE j \in hits : \A k \in hits : j <= k

\* String.prototype.split(/\s+/): the pieces between the runs of whitespace,
\* an empty piece before a leading run and after a trailing one
RECURSIVE SplitFrom(_, _)
SplitFrom(s, i) ==
  LET j == IndexFrom(s, i, TRUE) IN
  IF j > Len(s) THEN <<SubSeq(s, i, Len(s))>>
  ELSE <<SubSeq(s, i, j - 1)>> \o SplitFrom(s, IndexFrom(s, j, FALSE))

split(s) == SplitFrom(s, 1)

\* Array.prototype.slice(start), start counted from 0
slice(parts, start) == SubSeq(parts, start + 1, Len(parts))

\* Array.prototype.join(" ")
RECURSIVE join(_)
join(parts) ==
  IF parts = <<>> THEN <<>>
  ELSE IF Len(parts) = 1 THEN parts[1]
  ELSE parts[1] \o <<" ">> \o join(Tail(parts))

\* String.prototype.trim
trim(s) ==
  LET first == IndexFrom(s, 1, FALSE)
      inner == {j \in 1..Len(s) : s[j] \notin Whitespace}
  IN IF inner = {} THEN <<>>
     ELSE SubSeq(s, first, CHOOSE j \in inner : \A k \in inner : k <= j)

\* ------------------------------------------------------- /miyabi commands
MAX_TITLE_LENGTH == 500

MAX_COMMAND_LENGTH == 1000

validAgents ==
  {<<"c", "o", "n", "d", "u", "c", "t", "o", "r">>,
   <<"s", "h", "i", "k", "i", "r", "u", "n">>,
   <<"k", "a", "e", "d", "e">>,
   <<"c", "o", "d", "e", "g", "e", "n">>,
   <<"s", "a", "k", "u", "r", "a">>,
   <<"r", "e", "v", "i", "e", "w">>,
   <<"t", "s", "u", "b", "a", "k", "i">>,
   <<"p", "r">>,
   <<"b", "o", "t", "a", "n">>,
   <<"d", "e", "p", "l", "o", "y">>}

\* the cross mark and the check mark a reply text starts with
FailureMarker == "X"

SuccessMarker == "OK"

\* a reply text: the mark it starts with, its fixed wording and the values
\* interpolated into it
Text(marker, literal, values) ==
  [marker |-> marker, literal |-> literal, values |-> values]

Reply(text) == Value([shouldContinue |-> FALSE, reply |-> [text |-> text]])

\* the service singletons before the first command
NoServices == [githubService |-> FALSE, tmuxService |-> FALSE]

\* what the outside does during one command: whether constructing a service
\* or the service call fails, and the message of the error raised
Worlds(messages) ==
  [outcome : {"ok", "constructorThrows", "callThrows"}, message : messages]

\* error instanceof Error ? error.message : String(error)
ErrorMsg(error) == error.message

\* GitHubService.createIssue as its caller sees it
createIssue(title, world) ==
  IF world.outcome = "callThrows"
  THEN Throw(Error(Template("GitHub API error: ", <<world.message>>)))
  ELSE Value("https://github.com/ShunsukeHayashi/miyabi-private/issues/123")

\* TmuxServiceLocal.getStatus as its caller sees it
getStatus(world) ==
  IF world.outcome = "callThrows"
  THEN Throw(Error(Template("Failed to get status: ", <<world.message>>)))
  ELSE Value("Miyabi Agent Society Status")

\* TmuxServiceLocal.sendToAgent: resolvePaneId, then the tmux command
sendToAgent(agent, message, world) ==
  LET paneId == resolvePaneId(agent) IN
  IF paneId.kind = "throw" THEN paneId
  ELSE IF world.outcome = "callThrows"
  THEN Throw(Error(Template("tmux command failed: ", <<world.message>>)))
  ELSE Value(Template("Message sent to ", <<agent>>))

\* getGitHubService / getTmuxService: the singleton is constructed on first use
GetService(services, name, world) ==
  IF services[name] THEN [services |-> services, ret |-> Void]
  ELSE IF world.outcome = "constructorThrows"
  THEN [services |-> services, ret |-> Throw(Error(world.message))]
  ELSE [services |-> [services EXCEPT ![name] = TRUE], ret |-> Void]

Call(service, method, args) ==
  [service |-> service, method |-> method, args |-> args]

\* handleMiyabiIssue without the test of the title length
handleMiyabiIssue_anyLength(services, args, world) ==
  LET title == trim(join(args)) IN
  IF title = <<>>
  THEN [services |-> services, calls |-> <<>>,
        ret |-> Reply(Text(FailureMarker, "Missing issue title", <<>>))]
  ELSE
    LET service == GetService(services, "githubService", world)
        issueUrl == createIssue(title, world)
    IN IF service.ret.kind = "throw"
       THEN [services |-> service.services, calls |-> <<>>,
             ret |-> Reply(Text(FailureMarker, "Failed to create GitHub issue",
                                <<ErrorMsg(service.ret.error)>>))]
       ELSE [services |-> service.services,
             calls |-> <<Call("GitHubService", "createIssue", <<title>>)>>,
             ret |-> IF issueUrl.kind = "throw"
                     THEN Reply(Text(FailureMarker, "Failed to create GitHub issue",
                                     <<ErrorMsg(issueUrl.error)>>))
                     ELSE Reply(Text(SuccessMarker, "GitHub Issue created successfully",
                                     <<issueUrl.value>>))]

handleMiyabiIssue(services, args, world) ==
  LET title == trim(join(args)) IN
  IF title = <<>>
  THEN [services |-> services, calls |-> <<>>,
        ret |-> Reply(Text(FailureMarker, "Missing issue title", <<>>))]
  ELSE IF Len(title) > MAX_TITLE_LENGTH
  THEN [services |-> services, calls |-> <<>>,
        ret |-> Reply(Text(FailureMarker, "Title too long",
                           <<Len(title), MAX_TITLE_LENGTH>>))]
  ELSE
    LET service == GetService(services, "githubService", world)
        issueUrl == createIssue(title, world)
    IN IF service.ret.kind = "throw"
       THEN [services |-> service.services, calls |-> <<>>,
             ret |-> Reply(Text(FailureMarker, "Failed to create GitHub issue",
                                <<ErrorMsg(service.ret.error)>>))]
       ELSE [services |-> service.services,
             calls |-> <<Call("GitHubService", "createIssue", <<title>>)>>,
             ret |-> IF issueUrl.kind = "throw"
                     THEN Reply(Text(FailureMarker, "Failed to create GitHub issue",
                                     <<ErrorMsg(issueUrl.error)>>))
                     ELSE Reply(Text(SuccessMarker, "GitHub Issue created successfully",
                                     <<issueUrl.value>>))]

\* handleMiyabiStatus whose catch block returns null
handleMiyabiStatus_swallow(services, world) ==
  LET service == GetService(services, "tmuxService", world)
      status == getStatus(world)
  IN IF service.ret.kind = "throw"
     THEN [services |-> service.services, calls |-> <<>>,
           ret |-> Null]
     ELSE [services |-> service.services,
           calls |-> <<Call("TmuxServiceLocal", "getStatus", <<>>)>>,
           ret |-> IF status.kind = "throw"
                   THEN Null
                   ELSE Reply(Text("", "", <<status.value>>))]

handleMiyabiStatus(services, world) ==
  LET service == GetService(services, "tmuxService", world)
      status == getStatus(world)
  IN IF service.ret.kind = "throw"
     THEN [services |-> service.services, calls |-> <<>>,
           ret |-> Reply(Text(FailureMarker, "Failed to get agent status",
                              <<ErrorMsg(service.ret.error)>>))]
     ELSE [services |-> service.services,
           calls |-> <<Call("TmuxServiceLocal", "getStatus", <<>>)>>,
           ret |-> IF status.kind = "throw"
                   THEN Reply(Text(FailureMarker, "Failed to get agent status",
                                   <<ErrorMsg(status.error)>>))
                   ELSE Reply(Text("", "", <<status.value>>))]

handleMiyabiAgent(services, args, world) ==
  LET cmd == join(slice(args, 1)) IN
  IF args = <<>> \/ args[1] = <<>>
  THEN [services |-> services, calls |-> <<>>,
        ret |-> Reply(Text(FailureMarker, "Missing agent name", <<>>))]
  ELSE IF cmd = <<>>
  THEN [services |-> services, calls |-> <<>>,
        ret |-> Reply(Text(FailureMarker, "Missing command", <<>>))]
  ELSE IF toLowerCase(args[1]) \notin validAgents
  THEN [services |-> services, calls |-> <<>>,
        ret |-> Reply(Text(FailureMarker, "Unknown agent", <<args[1]>>))]
  ELSE IF Len(cmd) > MAX_COMMAND_LENGTH
  THEN [services |-> services, calls |-> <<>>,
        ret |-> Reply(Text(FailureMarker, "Command too long",
                           <<Len(cmd), MAX_COMMAND_LENGTH>>))]
  ELSE
    LET agent == args[1]
        service == GetService(services, "tmuxService", world)
        result == sendToAgent(agent, cmd, world)
        displayCmd == IF Len(cmd) > 100
                      THEN SubSeq(cmd, 1, 100) \o <<".", ".", ".">> ELSE cmd
    IN IF service.ret.kind = "throw"
       THEN [services |-> service.services, calls |-> <<>>,
             ret |-> Reply(Text(FailureMarker, "Failed to send command to",
                                <<agent, ErrorMsg(service.ret.error)>>))]
       ELSE [services |-> service.services,
             calls |-> <<Call("TmuxServiceLocal", "sendToAgent",
                              <<agent, cmd>>)>>,
             ret |-> IF result.kind = "throw"
                     THEN Reply(Text(FailureMarker, "Failed to send command to",
                                     <<agent, ErrorMsg(result.error)>>))
                     ELSE Reply(Text("", "", <<result.value, agent,
                                               displayCmd>>))]

\* handleMiyabiCommand comparing the action as it was typed
handleMiyabiCommand_caseSensitive(services, commandBody, world) ==
  IF ~startsWith(commandBody, <<"/", "m", "i", "y", "a", "b", "i">>)
  THEN [services |-> services, calls |-> <<>>, ret |-> Null]
  ELSE
    LET parts == split(commandBody)
        action == IF Len(parts) >= 2 THEN parts[2] ELSE <<>>
        routed == IF action = <<"i", "s", "s", "u", "e">>
                  THEN handleMiyabiIssue(services, slice(parts, 2), world)
                  ELSE IF action = <<"s", "t", "a", "t", "u", "s">>
                  THEN handleMiyabiStatus(services, world)
                  ELSE handleMiyabiAgent(services, slice(parts, 2), world)
    IN IF action = <<>>
       THEN [services |-> services, calls |-> <<>>,
             ret |-> Reply(Text(FailureMarker, "Missing action", <<>>))]
       ELSE IF action \notin {<<"i", "s", "s", "u", "e">>, <<"s", "t", "a", "t", "u", "s">>, <<"a", "g", "e", "n", "t">>}
       THEN [services |-> services, calls |-> <<>>,
             ret |-> Reply(Text(FailureMarker, "Unknown action", <<action>>))]
       ELSE IF routed.ret.kind = "throw"
       THEN [services |-> routed.services, calls |-> routed.calls,
             ret |-> Reply(Text(FailureMarker, "An error occurred while processing your command",
                                <<>>))]
       ELSE routed

handleMiyabiCommand(services, commandBody, world) ==
  IF ~startsWith(commandBody, <<"/", "m", "i", "y", "a", "b", "i">>)
  THEN [services |-> services, calls |-> <<>>, ret |-> Null]
  ELSE
    LET parts == split(commandBody)
        action == IF Len(parts) >= 2 THEN toLowerCase(parts[2]) ELSE <<>>
        routed == IF action = <<"i", "s", "s", "u", "e">>
                  THEN handleMiyabiIssue(services, slice(parts, 2), world)
                  ELSE IF action = <<"s", "t", "a", "t", "u", "s">>
                  THEN handleMiyabiStatus(services, world)
                  ELSE handleMiyabiAgent(services, slice(parts, 2), world)
    IN IF action = <<>>
       THEN [services |-> services, calls |-> <<>>,
             ret |-> Reply(Text(FailureMarker, "Missing action", <<>>))]
       ELSE IF action \notin {<<"i", "s", "s", "u", "e">>, <<"s", "t", "a", "t", "u", "s">>, <<"a", "g", "e", "n", "t">>}
       THEN [services |-> services, calls |-> <<>>,
             ret |-> Reply(Text(FailureMarker, "Unknown action", <<action>>))]
       ELSE IF routed.ret.kind = "throw"
       THEN [services |-> routed.services, calls |-> routed.calls,
             ret |-> Reply(Text(FailureMarker, "An error occurred while processing your command",
                                <<>>))]
       ELSE routed

\* ---------------------------------------------------- commands: the state
Repeat(c, n) == [i \in 1..n |-> c]

\* command bodies handed to handleMiyabiCommand
CommandBodies ==
  {<<>>,
   <<"/", "h", "e", "l", "p">>,
   <<"/", "m", "i", "y", "a", "b", "i">>,
   <<"/", "m", "i", "y", "a", "b", "i", " ">>,
   <<"/", "m", "i", "y", "a", "b", "i", " ", "u", "n", "k", "n", "o", "w", "n">>,
   <<"/", "m", "i", "y", "a", "b", "i", " ", "s", "t", "a", "t", "u", "s">>,
   <<"/", "m", "i", "y", "a", "b", "i", " ", "S", "T", "A", "T", "U", "S", " ", "e", "x", "t", "r", "a">>,
   <<"/", "m", "i", "y", "a", "b", "i", " ", "i", "s", "s", "u", "e">>,
   <<"/", "m", "i", "y", "a", "b", "i", " ", "i", "s", "s", "u", "e", " ", " ", " ">>,
   <<"/", "m", "i", "y", "a", "b", "i", " ", "i", "s", "s", "u", "e", " ", "F", "i", "x", " ", "b", "u", "g">>,
   <<"/", "m", "i", "y", "a", "b", "i", " ", "I", "s", "s", "u", "e", " ", "F", "i", "x", " ", " ", "t", "h", "e", " ", "b", "u", "g">>,
   <<"/", "m", "i", "y", "a", "b", "i", " ", "a", "g", "e", "n", "t">>,
   <<"/", "m", "i", "y", "a", "b", "i", " ", "a", "g", "e", "n", "t", " ", "c", "o", "n", "d", "u", "c", "t", "o", "r">>,
   <<"/", "m", "i", "y", "a", "b", "i", " ", "a", "g", "e", "n", "t", " ", "c", "o", "n", "d", "u", "c", "t", "o", "r", " ", "h", "e", "l", "l", "o">>,
   <<"/", "m", "i", "y", "a", "b", "i", " ", "a", "g", "e", "n", "t", " ", "K", "A", "E", "D", "E", " ", "r", "u", "n", " ", "i", "t">>,
   <<"/", "m", "i", "y", "a", "b", "i", " ", "a", "g", "e", "n", "t", " ", "h", "a", "c", "k", "e", "r", " ", "h", "i">>,
   <<"/", "m", "i", "y", "a", "b", "i", " ", "a", "g", "e", "n", "t", " ", "c", "o", "n", "s", "t", "r", "u", "c", "t", "o", "r", " ", "h", "i">>,
   <<"/", "m", "i", "y", "a", "b", "i", "x", " ", "s", "t", "a", "t", "u", "s">>,
   <<"/", "m", "i", "y", "a", "b", "i", "s", "t", "a", "t", "u", "s">>,
   <<"/", "m", "i", "y", "a", "b", "i", "-", "s", "y", "n", "c", " ", "i", "s", "s", "u", "e", " ", "F", "i", "x", " ", "b", "u", "g">>,
   <<" ", "/", "m", "i", "y", "a", "b", "i", " ", "s", "t", "a", "t", "u", "s">>,
   <<"/", "s", "t", "a", "t", "u", "s">>} \cup
  {<<"/", "m", "i", "y", "a", "b", "i", " ", "i", "s", "s", "u", "e", " ">> \o Repeat("A", n) : n \in {MAX_TITLE_LENGTH, MAX_TITLE_LENGTH + 1}}
  \cup
  {<<"/", "m", "i", "y", "a", "b", "i", " ", "a", "g", "e", "n", "t", " ", "b", "o", "t", "a", "n", " ">> \o Repeat("x", n) :
     n \in {MAX_COMMAND_LENGTH, MAX_COMMAND_LENGTH + 1}}

\* message of the error the gh and tmux commands fail with
ErrorMessages == {"connect ECONNREFUSED 10.0.0.5:443"}

\* inst holds the service singletons
InitCommand ==
  /\ table = EmptyTable
  /\ now = 0
  /\ last = NoCall
  /\ inst = NoServices

HandleMiyabiCommand(commandBody, world) ==
  LET r == handleMiyabiCommand(inst, commandBody, world) IN
  /\ inst' = r.services
  /\ last' = [op |-> "handleMiyabiCommand", commandBody |-> commandBody,
              world |-> world, services |-> inst, calls |-> r.calls,
              ret |-> r.ret]
  /\ UNCHANGED <<table, now>>

NextCommand ==
  \E commandBody \in CommandBodies : \E world \in Worlds(ErrorMessages) :
    HandleMiyabiCommand(commandBody, world)

SpecCommand == InitCommand /\ [][NextCommand]_vars

\* ---------------------------------------------------- commands: the claims
\* the first piece of the command body, up to its first whitespace
FirstWord(commandBody) ==
  LET ws == {i \in 1..Len(commandBody) : commandBody[i] \in Whitespace}
  IN IF ws = {} THEN commandBody
     ELSE SubSeq(commandBody, 1, (CHOOSE i \in ws : \A k \in ws : i <= k) - 1)

\* the reply text of the last command
ReplyText == last.ret.value.reply.text

\* the routing of the last command, given whether its body counts as a
\* /miyabi command
Routed(isMiyabiCommand) ==
    LET words == split(last.commandBody)
        action == IF Len(words) >= 2 THEN toLowerCase(words[2]) ELSE <<>>
    IN IF ~isMiyabiCommand
       THEN last.ret = Null
       ELSE /\ last.ret.kind = "value"
            /\ last.ret.value.shouldContinue = FALSE
            /\ action = <<>> <=> ReplyText.literal = "Missing action"
            /\ ( /\ action # <<>>
                 /\ action \notin {<<"i", "s", "s", "u", "e">>,
                                   <<"s", "t", "a", "t", "u", "s">>,
                                   <<"a", "g", "e", "n", "t">>} )
               <=> ReplyText.literal = "Unknown action"
            /\ action = <<"i", "s", "s", "u", "e">>
               => ReplyText.literal \in
                    {"Missing issue title", "Title too long",
                     "Failed to create GitHub issue",
                     "GitHub Issue created successfully"}
            /\ action = <<"s", "t", "a", "t", "u", "s">>
               => \/ ReplyText.literal = "Failed to get agent status"
                  \/ ReplyText.values = <<"Miyabi Agent Society Status">>
            /\ action = <<"a", "g", "e", "n", "t">>
               => \/ ReplyText.literal \in
                       {"Missing agent name", "Missing command",
                        "Unknown agent", "Command too long",
                        "Failed to send command to"}
                  \/ /\ ReplyText.literal = ""
                     /\ ReplyText.values[1].literal = "Message sent to "

\* C26 as stated: handleMiyabiCommand returns null exactly for the bodies
\* that are not /miyabi commands; for a /miyabi command it returns
\* shouldContinue = false with "Missing action" when no action follows,
\* "Unknown action" when the action is none of issue, status, agent in any
\* letter case, and the reply of the sub-handler otherwise.
CommandRouted ==
  last.op = "handleMiyabiCommand" =>
    Routed(FirstWord(last.commandBody) = <<"/", "m", "i", "y", "a", "b", "i">>)

\* C26 as amended: the same with a /miyabi command being every body whose
\* first seven characters are "/miyabi", whatever follows them.
CommandRoutedByPrefix ==
  last.op = "handleMiyabiCommand" =>
    Routed(/\ Len(last.commandBody) >= 7
           /\ [i \in 1..7 |-> last.commandBody[i]]
                = <<"/", "m", "i", "y", "a", "b", "i">>)

\* "/miyabi-sync issue Fix bug" was taken as the /miyabi issue command
PrefixRouted ==
  /\ last.op = "handleMiyabiCommand"
  /\ FirstWord(last.commandBody)
       = <<"/", "m", "i", "y", "a", "b", "i", "-", "s", "y", "n", "c">>
  /\ last.world.outcome = "ok"
  /\ ReplyText.literal = "GitHub Issue created successfully"

\* the service call the last command body leads to when nothing fails
Attempt ==
  handleMiyabiCommand(NoServices, last.commandBody,
                      [outcome |-> "ok", message |-> ""]).calls

\* the singleton of the service a call goes to
Singleton(call) ==
  IF call.service = "GitHubService" THEN "githubService" ELSE "tmuxService"

\* the construction of the service or the service call of the last command
\* threw
ServiceFailed ==
  /\ Attempt # <<>>
  /\ \/ last.world.outcome = "callThrows"
     \/ /\ last.world.outcome = "constructorThrows"
        /\ ~last.services[Singleton(Attempt[1])]

\* C27: handleMiyabiCommand never rejects; when constructing the service or
\* the service call throws, it returns a result with shouldContinue = false
\* whose reply text starts with the failure marker.
NeverRejects ==
  last.op = "handleMiyabiCommand" =>
    /\ last.ret.kind \in {"null", "value"}
    /\ ServiceFailed =>
         /\ last.ret.kind = "value"
         /\ last.ret.value.shouldContinue = FALSE
         /\ ReplyText.marker = FailureMarker

\* /miyabi status answered a failing tmux call with a failure reply
StatusFailureAnswered ==
  /\ last.op = "handleMiyabiCommand" /\ ServiceFailed
  /\ last.world.outcome = "callThrows"
  /\ Attempt[1].method = "getStatus"
  /\ ReplyText.marker = FailureMarker

\* another message the same failure could carry
OtherMessage == "HTTP 401: Bad credentials for token ghp_0000"

\* C28: two runs of the same command that differ only in the message of the
\* error the service raised return the same reply.
FailureReplyGeneric ==
  last.op = "handleMiyabiCommand" =>
    handleMiyabiCommand(last.services, last.commandBody,
                        [last.world EXCEPT !.message = OtherMessage]).ret
      = last.ret

\* C29: createIssue is called only with a non-empty title of at most 500
\* characters, sendToAgent only with an agent name of the whitelist (in any
\* letter case) and a non-empty command of at most 1000 characters; a reply
\* that rejects the input comes without any service call.
ValidatedBeforeCall ==
  last.op = "handleMiyabiCommand" =>
    /\ \A i \in 1..Len(last.calls) :
         LET call == last.calls[i] IN
         /\ call.method = "createIssue" =>
              /\ call.args[1] # <<>>
              /\ Len(call.args[1]) <= 500
         /\ call.method = "sendToAgent" =>
              /\ call.args[1] # <<>>
              /\ call.args[2] # <<>>
              /\ [k \in 1..Len(call.args[1]) |-> LowerChar(call.args[1][k])]
                   \in DOMAIN ExpectedPane
              /\ Len(call.args[2]) <= 1000
    /\ ( /\ last.ret.kind = "value"
         /\ ReplyText.literal \in
              {"Missing action", "Unknown action", "Missing issue title",
               "Title too long", "Missing agent name", "Missing command",
               "Unknown agent", "Command too long"} )
       => last.calls = <<>>

\* a title of exactly 500 characters reached createIssue
LongestTitleSent ==
  /\ last.op = "handleMiyabiCommand" /\ Len(last.calls) = 1
  /\ last.calls[1].method = "createIssue"
  /\ Len(last.calls[1].args[1]) = 500

\* ---------------------------------------------------------- sanitizeTitle
\* the first index from i on whose character is c, Len(s) + 1 when none is
IndexOf(s, i, c) ==
  LET hits == {j \in i..Len(s) : s[j] = c}
  IN IF hits = {} THEN Len(s) + 1
     ELSE CHOOSE j \in hits : \A k \in hits : j <= k

\* replace(/<[^>]*>/g, ""): each "<" up to the next ">" is removed, from
\* left to right; a "<" with no ">" after it stays
RECURSIVE StripTags(_, _)
StripTags(s, i) ==
  LET open == IndexOf(s, i, "<")
      close == IndexOf(s, open + 1, ">")
  IN IF open > Len(s) \/ close > Len(s) THEN SubSeq(s, i, Len(s))
     ELSE SubSeq(s, i, open - 1) \o StripTags(s, close + 1)

NotAngle(c) == c \notin {"<", ">"}

\* String.prototype.substring(0, end)
substring(s, end) == SubSeq(s, 1, IF Len(s) < end THEN Len(s) ELSE end)

MAX_SANITIZED_LENGTH == 200

sanitizeTitle(title) ==
  substring(trim(SelectSeq(StripTags(title, 1), NotAngle)),
            MAX_SANITIZED_LENGTH)

\* longest title of which every spelling is tried
MaxShortTitle == 3

RECURSIVE Strings(_, _)
Strings(chars, n) ==
  IF n = 0 THEN {<<>>}
  ELSE LET shorter == Strings(chars, n - 1)
       IN shorter \cup {<<c>> \o s : c \in chars, s \in shorter}

\* titles handed to sanitizeTitle: every short one over a few characters and
\* long ones around the limit
TitleInputs ==
  Strings({"<", ">", " ", "a", "/"}, MaxShortTitle)
  \cup {Repeat("A", 300), <<" ", " ">> \o Repeat("A", 200) \o <<" ">>}
  \cup {Repeat("A", n) \o <<" ", "B">> :
          n \in {MAX_SANITIZED_LENGTH - 2, MAX_SANITIZED_LENGTH - 1,
                 MAX_SANITIZED_LENGTH}}
  \cup {<<"<", "b", ">">> \o Repeat("A", 199) \o <<"\t", "<", "/", "b", ">", "B">>}

SanitizeTitle(title) ==
  /\ last' = [op |-> "sanitizeTitle", title |-> title,
              ret |-> sanitizeTitle(title)]
  /\ UNCHANGED <<table, now, inst>>

NextTitle == \E title \in TitleInputs : SanitizeTitle(title)

SpecTitle == Init /\ [][NextTitle]_vars

\* C31: the string sanitizeTitle returns contains no "<" and no ">", has at
\* most 200 characters and neither starts nor ends with whitespace.
TitleSanitized ==
  last.op = "sanitizeTitle" =>
    /\ \A i \in 1..Len(last.ret) : last.ret[i] \notin {"<", ">"}
    /\ Len(last.ret) <= 200
    /\ last.ret # <<>> =>
         /\ last.ret[1] \notin Whitespace
         /\ last.ret[Len(last.ret)] \notin Whitespace

\* ------------------------------------------------- calls on absent records
CreatedFields == {"expiresAt", "startTime", "thetaState", "context"}

\* C35: updateStatus on a sessionId without a record creates none, and every
\* stored record has expiresAt, startTime, thetaState and context.
OnlySaveCreates ==
  [][ /\ Called("updateStatus") /\ ~Stored(last'.sessionId) =>
           last'.sessionId \notin DOMAIN table'
      /\ \A id \in DOMAIN table' :
           \A f \in CreatedFields : Has(table'[id], f)
    ]_vars

\* C36: updateStatusIf on a sessionId without a record returns false and
\* leaves the store without a record of it, whatever newStatus and expected.
AbsentNotUpdated ==
  [][ Called("updateStatusIf") /\ ~Stored(last'.sessionId) =>
        /\ last'.ret = Value(FALSE)
        /\ last'.sessionId \notin DOMAIN table'
    ]_vars

\* updateStatusIf was refused, at a later clock value, on a sessionId that
\* has no record
AbsentRefused ==
  /\ last.op = "updateStatusIf" /\ last.ret = Value(FALSE)
  /\ last.newStatus = last.expected
  /\ ~Stored(last.sessionId)
  /\ now > 0

\* -------------------------------------------------------- key of a record
\* one caller saving checkpoints whose metadata names the session saved or
\* the other one, and deleting
NextKey ==
  \/ Tick
  \/ \E id \in SessionIds : \E named \in SessionIds :
       \E s \in StateInputs(named, {RUNNING, COMPLETED}, {0}, ThetaStates) :
         \E o \in OptionInputs : SaveState(id, s, o)
  \/ \E id \in SessionIds : DeleteSession(id)

SpecKey == Init /\ [][NextKey]_vars

\* C39: the record saveState writes is stored under its sessionId argument
\* and carries that sessionId, whatever state.metadata.sessionId is, and the
\* record of every other sessionId stays as it is.
KeyedByArgument ==
  [][ Called("saveState") =>
        /\ last'.sessionId \in DOMAIN table'
        /\ table'[last'.sessionId].sessionId = last'.sessionId
        /\ table'[last'.sessionId].thetaState = last'.state.thetaState
        /\ OthersUntouched(last'.sessionId)
    ]_vars

\* a checkpoint naming another, stored session in its metadata was saved
SavedUnderOtherName ==
  /\ last.op = "saveState" /\ last.ret = Void
  /\ last.state.metadata.sessionId # last.sessionId
  /\ Stored(last.state.metadata.sessionId)
  /\ Stored(last.sessionId)
  /\ table[last.sessionId].thetaState
       # table[last.state.metadata.sessionId].thetaState

\* ------------------------------------------------- expired sessions listed
\* one caller saving sessions of a user that expire at once or a second
\* later, and listing the user's sessions as the clock advances
NextListed ==
  \/ Tick
  \/ \E id \in SessionIds :
       \E s \in StateInputs(id, {RUNNING, COMPLETED}, {0}, ThetaStates) :
         \E o \in {[ttl |-> 0], [ttl |-> 1]} : SaveState(id, s, o)
  \/ \E f \in {[userId |-> "u1"], [userId |-> "u1", status |-> COMPLETED]} :
       GetPendingSessions(f)

SpecListed == Init /\ [][NextListed]_vars

\* C37: every session getPendingSessions returns has an expiresAt that has
\* not passed, and restoreState of its sessionId at the same clock value
\* returns a restored session.
ListedNotExpired ==
  [][ Called("getPendingSessions") /\ last'.ret.kind = "value" =>
        \A it \in Range(last'.ret.value) :
          /\ Has(it, "expiresAt") /\ now <= it.expiresAt * 1000
          /\ restoreState(table', it.sessionId, now).ret.kind = "value"
    ]_vars

restoreStateResume_flat(response, clk) ==
  IF ~Has(response, "Item") THEN [next |-> "return", ret |-> Null]
  ELSE
    LET state == response.Item IN
    IF clk > state.expiresAt * 1000
    THEN [next |-> "deleteSession", ret |-> Null]
    ELSE [next |-> "return",
          ret |-> Value([state |-> state,
                         resumable |-> state.status = RUNNING,
                         elapsed |-> clk - state.startTime])]

\* restoreState from the response of its GetCommand on, up to its return or
\* to the deleteSession it awaits next
restoreStateResume(response, clk) ==
  IF ~Has(response, "Item") THEN [next |-> "return", ret |-> Null]
  ELSE
    LET state == response.Item IN
    IF ~Has(state, "metadata")
    THEN [next |-> "return", ret |-> Throw(TypeError)]
    ELSE
      IF clk > state.metadata.expiresAt * 1000
      THEN [next |-> "deleteSession", ret |-> Null]
      ELSE [next |-> "return",
            ret |-> Value([state |-> state,
                           resumable |-> state.metadata.status = RUNNING,
                           elapsed |-> clk - state.metadata.startTime])]

\* the instance calls restoreState(sessionId); the backend answers the Get
RestoreGet(p, sessionId) ==
  /\ inst[p].pc = "idle"
  /\ inst' = [inst EXCEPT ![p] = [pc |-> "got", sessionId |-> sessionId,
                                  response |-> GetCommand(table, sessionId)]]
  /\ UNCHANGED <<table, now, last>>

\* restoreState goes on after an await: after the Get it returns, throws or
\* sends the delete of the expired record; after the delete it returns null
RestoreResume(p) ==
  LET c == inst[p]
      r == restoreStateResume(c.response, now) IN
  /\ c.pc \in {"got", "expired"}
  /\ IF c.pc = "got" /\ r.next = "deleteSession"
     THEN /\ inst' = [inst EXCEPT ![p].pc = "expired"]
          /\ UNCHANGED <<table, now, last>>
     ELSE /\ table' = IF c.pc = "expired"
                      THEN deleteSession(table, c.sessionId).table
                      ELSE table
          /\ last' = [op |-> "restoreState", sessionId |-> c.sessionId,
                      response |-> c.response,
                      ret |-> IF c.pc = "expired" THEN Null ELSE r.ret]
          /\ inst' = [inst EXCEPT ![p] = Idle]
          /\ UNCHANGED now

\* instances restoring s1 while it is saved with a ttl of 0 or 1 second
NextRestore ==
  \/ Tick
  \/ \E s \in StateInputs("s1", {RUNNING}, {0}, ThetaStates) :
       \E o \in {[ttl |-> 0], [ttl |-> 1]} : SaveState("s1", s, o)
  \/ \E p \in Procs : RestoreGet(p, "s1")
  \/ \E p \in Procs : RestoreResume(p)

SpecRestore == Init /\ [][NextRestore]_vars

SweepScan(p) ==
  /\ inst[p].pc = "idle"
  /\ inst' = [inst EXCEPT ![p] =
                [pc |-> "sweeping",
                 expired |-> ScanCommand(table, RUNNING, now \div 1000).Items,
                 next |-> 1, removed |-> 0]]
  /\ UNCHANGED <<table, now, last>>

\* one turn of the loop over the scanned items: deleteSession of the next
\* one; removed counts the records these deletes took out of the store
SweepDelete(p) ==
  LET c == inst[p]
      item == c.expired[c.next]
      tbl == IF Has(item, "sessionId")
             THEN deleteSession(table, item.sessionId).table
             ELSE table IN
  /\ c.pc = "sweeping" /\ c.next <= Len(c.expired)
  /\ table' = tbl
  /\ inst' = [inst EXCEPT ![p].next = @ + 1,
                          ![p].removed = @ + Cardinality(DOMAIN table)
                                           - Cardinality(DOMAIN tbl)]
  /\ UNCHANGED <<now, last>>

\* the loop is over: cleanupExpiredSessions returns expired.length
SweepReturn(p) ==
  LET c == inst[p] IN
  /\ c.pc = "sweeping" /\ c.next > Len(c.expired)
  /\ last' = [op |-> "cleanupExpiredSessions", ret |-> Value(Len(c.expired)),
              removed |-> c.removed]
  /\ inst' = [inst EXCEPT ![p] = Idle]
  /\ UNCHANGED <<table, now>>

\* instances sweeping the table while sessions are saved with a ttl of 0 or 1
\* second and finalized
NextSweep ==
  \/ Tick
  \/ \E id \in SessionIds :
       \E s \in StateInputs(id, {RUNNING}, {0}, {[step |-> 1]}) :
         \E o \in {[ttl |-> 0], [ttl |-> 1]} : SaveState(id, s, o)
  \/ \E id \in SessionIds : UpdateStatusIf(id, COMPLETED, RUNNING)
  \/ \E p \in Procs : SweepScan(p)
  \/ \E p \in Procs : SweepDelete(p)
  \/ \E p \in Procs : SweepReturn(p)

SpecSweep == Init /\ [][NextSweep]_vars

\* C33: whatever saveState and updateStatusIf do between the steps of a
\* sweep, every record the sweep removes is RUNNING and has its expiresAt in
\* the past at the moment of its delete.
SweepRemovesOnlyAbandoned ==
  [][ \A id \in (DOMAIN table) \ (DOMAIN table') :
        /\ table[id].status = RUNNING
        /\ table[id].expiresAt < now \div 1000 ]_vars

\* C34: the number cleanupExpiredSessions returns is the number of records
\* its deletes removed from the store.
CountIsRemoved ==
  last.op = "cleanupExpiredSessions" => last.ret = Value(last.removed)

====
